---- MODULE Spec2Model ----
(***************************************************************************)
(* A model of the fetch layer of my-finance-ai:                            *)
(*   - rate_limit_retry, the retry decorator of src/mcp/mcp_server.py;     *)
(*   - MonobankClient.get_transactions, the chunked statement fetch of     *)
(*     src/mcp/monobank/client.py (the same code as                        *)
(*     src/mcp_servers/monobank/client.py);                                *)
(*   - the tool monobank_get_transactions, the first wrapped around the    *)
(*     second;                                                             *)
(*   - WiseClient.get_card_transactions, the cursor paging of              *)
(*     src/mcp/wise/client.py;                                             *)
(* and of its report layer:                                                *)
(*   - WiseClient._categorize_merchant;                                    *)
(*   - the normalisation of a raw record by the three adapters;            *)
(*   - MonobankClient.detect_recurring_payments;                           *)
(*   - generate_report, fetch_all_transactions and                         *)
(*     generate_spending_report of src/mcp/weekly_report.py, and the tool  *)
(*     generate_report of src/mcp/mcp_server.py;                           *)
(*   - MonobankClient.get_all_transactions, the loop over the accounts,    *)
(*     step by step inside fetch_all_transactions;                         *)
(*   - get_mcc_category and repeated calls of the categorizers;            *)
(*   - the tool invocations of one server process;                         *)
(*   - WiseClient.get_transfers and the date window of the three fetches;  *)
(*   - BearerAuthMiddleware.dispatch of the SSE server;                    *)
(*   - MonobankClient.get_expense_stats.                                   *)
(* Time is counted in seconds. The text of an error is modelled by the     *)
(* substrings the code looks for in it.                                    *)
(***************************************************************************)
EXTENDS Integers, Sequences, FiniteSets, TLC

VARIABLES
    \* the process clock, read by datetime.now() and advanced by time.sleep()
    clock,
    \* rate_limit_retry: the decorator's arguments and the wrapper's locals
    retries, initial_delay, delay, attempt,
    \* rate_limit_retry: where the wrapper is, and how its call ended
    wrapper_pc, wrapper_result,
    \* history: the outcome of every invocation of func, and every time.sleep()
    outcomes, waits,
    \* MonobankClient.get_transactions: argument and locals
    days, now, start_date, current_start, all_txs,
    \* MonobankClient.get_transactions: where it is, and the error it raised
    gt_pc, gt_raised,
    \* history: every get_statements call, as [from, to, outcome]
    requests,
    \* WiseClient.get_card_transactions: argument and locals
    wise_days, wise_now, wise_start_date, processed, cursor, seen_ids,
    \* WiseClient.get_card_transactions: where it is
    wise_pc,
    \* history: the number of GETs of /activities, the ids skipped at line 194,
    \* whether a fetched page held a record older than start_date, whether a
    \* response came without a cursor
    page_requests, skipped, older_seen, cursorless_seen,
    \* history: the ids of the fetched activities that are card payments,
    \* completed or pending, dated inside the window, and new when fetched
    eligible,
    \* WiseClient._categorize_merchant: argument and return value
    merchant_name, category,
    \* the adapters' normalisation: the raw record at hand, the transactions
    \* emitted for it, and whether it was handled
    raw, emitted, norm_pc,
    \* detect_recurring_payments: the fetched statement list, the returned list
    transactions, recurring, rec_pc,
    \* generate_report: arguments all_txs and days, the values it renders
    report_txs, report_days, report, report_pc,
    \* fetch_all_transactions: how each source's fetch ended, the local all_txs,
    \* the returned list, and where the call is
    monobank_result, wise_result, fa_all_txs, fa_result, fa_pc,
    \* MonobankClient.get_all_transactions: the clock reading, the accounts of
    \* client-info, the loop variables idx (counted from 1) and attempt, the
    \* local all_transactions, and where the call is
    mono_now, accounts, idx, mono_attempt, all_transactions, mono_pc,
    \* history: every GET of a statement, as [idx, attempt, kind, items, at]
    statement_requests,
    \* history: every call of get_mcc_category and of _categorize_merchant, as
    \* [fn, input, label]
    calls,
    \* the server: the tool invocations received, as [pc, source, sent], and
    \* the invocation the event loop is running (0: none)
    tasks, running,
    \* which fetch operation the caller runs (Claims about the window)
    fetch_op,
    \* WiseClient.get_transfers: argument, locals and where it is
    transfers_days, transfers_now, transfers_start_date, transfers,
    transfers_processed, transfers_pc,
    \* the SSE server: the configured token, and history: every request
    \* BearerAuthMiddleware.dispatch handled, as [authorization, outcome]
    MCP_AUTH_TOKEN, auth_log,
    \* MonobankClient.get_expense_stats: the list get_transactions returned,
    \* and the dictionary returned
    stats_txs, stats

wrapper_vars == <<retries, initial_delay, delay, attempt, wrapper_pc,
                  wrapper_result, outcomes, waits>>
gt_vars == <<days, now, start_date, current_start, all_txs, gt_pc, gt_raised,
             requests>>
wise_vars == <<wise_days, wise_now, wise_start_date, processed, cursor,
               seen_ids, wise_pc, page_requests, skipped, older_seen,
               cursorless_seen, eligible>>
cat_vars == <<merchant_name, category>>
norm_vars == <<raw, emitted, norm_pc>>
rec_vars == <<transactions, recurring, rec_pc>>
report_vars == <<report_txs, report_days, report, report_pc>>
fetch_vars == <<monobank_result, wise_result, fa_all_txs, fa_result, fa_pc>>
mono_vars == <<mono_now, accounts, idx, mono_attempt, all_transactions, mono_pc,
               statement_requests>>
call_vars == <<calls>>
task_vars == <<tasks, running>>
transfers_vars == <<fetch_op, transfers_days, transfers_now,
                    transfers_start_date, transfers, transfers_processed,
                    transfers_pc>>
auth_vars == <<MCP_AUTH_TOKEN, auth_log>>
stats_vars == <<stats_txs, stats>>
vars == <<clock, wrapper_vars, gt_vars, wise_vars, cat_vars, norm_vars,
          rec_vars, report_vars, fetch_vars,
          mono_vars,
          call_vars,
          task_vars,
          transfers_vars,
          auth_vars,
          stats_vars>>

\* What each specification leaves alone.
report_layer == <<cat_vars, norm_vars, rec_vars, report_vars, fetch_vars>>
fetch_layer == <<wrapper_vars, gt_vars, wise_vars>>
outside_retry == <<gt_vars, wise_vars, report_layer,
    mono_vars,
    call_vars,
    task_vars,
    transfers_vars,
    auth_vars,
    stats_vars>>
outside_chunk == <<wrapper_vars, wise_vars, report_layer,
    mono_vars,
    call_vars,
    task_vars,
    transfers_vars,
    auth_vars,
    stats_vars>>
outside_tool == <<wise_vars, report_layer,
    mono_vars,
    call_vars,
    task_vars,
    transfers_vars,
    auth_vars,
    stats_vars>>
outside_wise == <<wrapper_vars, gt_vars, report_layer,
    mono_vars,
    call_vars,
    task_vars,
    transfers_vars,
    auth_vars,
    stats_vars>>
outside_categorize == <<clock, fetch_layer, norm_vars, rec_vars, report_vars,
                        fetch_vars,
    mono_vars,
    call_vars,
    task_vars,
    transfers_vars,
    auth_vars,
    stats_vars>>
outside_normalize == <<clock, fetch_layer, cat_vars, rec_vars, report_vars,
                       fetch_vars,
    mono_vars,
    call_vars,
    task_vars,
    transfers_vars,
    auth_vars,
    stats_vars>>
outside_recurring == <<clock, fetch_layer, cat_vars, norm_vars, report_vars,
                       fetch_vars,
    mono_vars,
    call_vars,
    task_vars,
    transfers_vars,
    auth_vars,
    stats_vars>>
outside_report == <<clock, fetch_layer, cat_vars, norm_vars, rec_vars,
                    fetch_vars,
    mono_vars,
    call_vars,
    task_vars,
    transfers_vars,
    auth_vars,
    stats_vars>>
outside_spending == <<gt_vars, wise_vars, cat_vars, norm_vars, rec_vars,
    mono_vars,
    call_vars,
    task_vars,
    transfers_vars,
    auth_vars,
    stats_vars>>

\* _categorize_merchant was not called yet.
CategorizeIdle ==
    /\ merchant_name = [upper |-> FALSE, keywords |-> {}]
    /\ category = "unset"

\* No raw record was handed to an adapter yet.
NormalizeIdle ==
    /\ raw = [adapter |-> "none"]
    /\ emitted = <<>>
    /\ norm_pc = "idle"

\* detect_recurring_payments was not called yet.
RecurringIdle ==
    /\ transactions = <<>>
    /\ recurring = <<>>
    /\ rec_pc = "idle"

\* generate_report was not called yet.
ReportIdle ==
    /\ report_txs = <<>>
    /\ report_days = 0
    /\ report = [rendered |-> FALSE]
    /\ report_pc = "idle"

\* fetch_all_transactions was not called yet.
FetchAllIdle ==
    /\ monobank_result = [kind |-> "none"]
    /\ wise_result = [kind |-> "none"]
    /\ fa_all_txs = <<>>
    /\ fa_result = <<>>
    /\ fa_pc = "idle"

\* The report layer is not in use.
ReportLayerIdle ==
    /\ CategorizeIdle
    /\ NormalizeIdle
    /\ RecurringIdle
    /\ ReportIdle
    /\ FetchAllIdle

\* MonobankClient.get_all_transactions was not called yet.
AccountsIdle ==
    /\ mono_now = 0
    /\ accounts = <<>>
    /\ idx = 0
    /\ mono_attempt = 0
    /\ all_transactions = <<>>
    /\ mono_pc = "idle"
    /\ statement_requests = <<>>

\* No categorizer was called yet.
CallsIdle ==
    /\ calls = <<>>

\* The server has received no tool invocation yet.
TasksIdle ==
    /\ tasks = <<>>
    /\ running = 0

\* No call of get_transfers was made yet.
TransfersIdle ==
    /\ fetch_op = "none"
    /\ transfers_days = 0
    /\ transfers_now = 0
    /\ transfers_start_date = 0
    /\ transfers = <<>>
    /\ transfers_processed = <<>>
    /\ transfers_pc = "idle"

\* The SSE server has no token and has received no request.
AuthIdle ==
    /\ MCP_AUTH_TOKEN = "None"
    /\ auth_log = <<>>

\* No call of get_expense_stats was made yet.
StatsIdle ==
    /\ stats_txs = <<>>
    /\ stats = [done |-> FALSE]

(***************************************************************************)
(* Bounds of the model.                                                    *)
(***************************************************************************)
MaxRetries == 3
MaxInitialDelay == 2
MaxDays == 65
MaxTxPerChunk == 1
MaxPageSize == 2
MaxPages == 2

\* The clock readings a run may start from.
StartClocks == {1000000000, 1000000007}

(***************************************************************************)
(* Errors and outcomes.                                                    *)
(***************************************************************************)
\* str(e) of an exception, by the substrings the code tests for.
ErrorTexts == [s429 : BOOLEAN, sTMR : BOOLEAN, s400 : BOOLEAN]

NoError == [s429 |-> FALSE, sTMR |-> FALSE, s400 |-> FALSE]

\* ValueError("sleep length must be non-negative") of time.sleep(d), d < 0
SleepValueError == [s429 |-> FALSE, sTMR |-> FALSE, s400 |-> FALSE]

Returned(v) == [kind |-> "ok", val |-> v, err |-> NoError]
Raised(e) == [kind |-> "err", val |-> <<>>, err |-> e]

\* What one invocation of an arbitrary wrapped operation can do.
FuncOutcomes ==
    {Returned(<<>>), Returned(<<1>>)} \cup {Raised(e) : e \in ErrorTexts}

NoResult == [kind |-> "none", src |-> "none", n |-> 0, val |-> <<>>, err |-> NoError]

RECURSIVE Pow2(_)
Pow2(k) == IF k <= 0 THEN 1 ELSE 2 * Pow2(k - 1)

(***************************************************************************)
(* rate_limit_retry (src/mcp/mcp_server.py:51-74)                          *)
(***************************************************************************)
\* line 65: "429" in error_str or "Too Many Requests" in error_str
IsRateLimit_RetryAll(e) == TRUE
IsRateLimit(e) == e.s429 \/ e.sTMR

\* line 66: if attempt < retries - 1
ShouldRetry_OffByOne(a, r) == a < r
ShouldRetry_Always(a, r) == TRUE
ShouldRetry(a, r) == a < r - 1

\* line 69: delay *= 2
NextDelay_Fixed(d) == d
NextDelay(d) == d * 2

\* line 60: for attempt in range(retries) has an iteration left, else line 72
LoopOrTail(a, r) == IF a < r THEN "loop" ELSE "tail"

\* lines 58-60: the wrapper is called
WrapperEnter ==
    /\ wrapper_pc = "ready"
    /\ delay' = initial_delay
    /\ attempt' = 0
    /\ wrapper_pc' = LoopOrTail(0, retries)
    /\ UNCHANGED <<retries, initial_delay, wrapper_result, outcomes, waits, clock>>

\* lines 61-71: one iteration of the loop, func having ended with outcome o
WrapperHandle(o) ==
    /\ outcomes' = Append(outcomes, o)
    /\ UNCHANGED <<retries, initial_delay>>
    /\ IF o.kind = "ok"
         THEN \* line 62: return func(*args, **kwargs)
              /\ wrapper_result' = [kind |-> "return", src |-> "func",
                                    n |-> Len(outcomes'), val |-> o.val,
                                    err |-> NoError]
              /\ wrapper_pc' = "returned"
              /\ UNCHANGED <<delay, attempt, waits, clock>>
         ELSE IF IsRateLimit(o.err) /\ ShouldRetry(attempt, retries)
           THEN IF delay < 0
                  THEN \* line 68: time.sleep(delay) raises ValueError
                       /\ wrapper_result' = [kind |-> "raise", src |-> "sleep",
                                             n |-> 0, val |-> <<>>,
                                             err |-> SleepValueError]
                       /\ wrapper_pc' = "raised"
                       /\ UNCHANGED <<delay, attempt, waits, clock>>
                  ELSE \* lines 68-70: sleep, double the delay, continue
                       /\ waits' = Append(waits, delay)
                       /\ clock' = clock + delay
                       /\ delay' = NextDelay(delay)
                       /\ attempt' = attempt + 1
                       /\ wrapper_pc' = LoopOrTail(attempt + 1, retries)
                       /\ UNCHANGED wrapper_result
           ELSE \* line 71: raise e
                /\ wrapper_result' = [kind |-> "raise", src |-> "func",
                                      n |-> Len(outcomes'), val |-> <<>>,
                                      err |-> o.err]
                /\ wrapper_pc' = "raised"
                /\ UNCHANGED <<delay, attempt, waits, clock>>

\* line 72: return func(*args, **kwargs) after the loop, func having ended with o
WrapperTail(o) ==
    /\ outcomes' = Append(outcomes, o)
    /\ wrapper_result' = [kind |-> IF o.kind = "ok" THEN "return" ELSE "raise",
                          src |-> "func", n |-> Len(outcomes'), val |-> o.val,
                          err |-> o.err]
    /\ wrapper_pc' = IF o.kind = "ok" THEN "returned" ELSE "raised"
    /\ UNCHANGED <<retries, initial_delay, delay, attempt, waits, clock>>

WrapperDone == wrapper_pc \in {"returned", "raised"}

(***************************************************************************)
(* MonobankClient.get_transactions (src/mcp/monobank/client.py:62-94, and  *)
(* the same code at src/mcp_servers/monobank/client.py:22-62)              *)
(***************************************************************************)
\* timedelta(days = 1), in seconds
DaySeconds == 86400

\* line 74: timedelta(days=30)
ChunkDays == 30

\* lines 74-76: current_end = current_start + 30 days, clamped to now
ChunkEnd_NoClamp(cs, n) == cs + ChunkDays * DaySeconds
ChunkEnd_Stuck(cs, n) == cs
ChunkEnd(cs, n) ==
    IF cs + ChunkDays * DaySeconds > n THEN n ELSE cs + ChunkDays * DaySeconds

\* line 83: "429" in str(e)
StopsOn429_Never(e) == FALSE
StopsOn429(e) == e.s429

\* line 86: "400" in str(e)
StopsOn400_Never(e) == FALSE
StopsOn400(e) == e.s400

\* line 73: while current_start < now
GtLoopOrReturn(cs, n) == IF cs < n THEN "loop" ELSE "returned"

\* The records client.get_statements returns for the k-th request of a call:
\* any list of up to MaxTxPerChunk records, each known by request and position.
StatementLists(k) ==
    {[j \in 1 .. n |-> <<k, j>>] : n \in 0 .. MaxTxPerChunk}

\* line 80: what one call of client.get_statements can do
FetchOutcomes(k) ==
    {Returned(l) : l \in StatementLists(k)} \cup {Raised(e) : e \in ErrorTexts}

\* No call of get_transactions was made yet.
GtIdle ==
    /\ now = 0
    /\ start_date = 0
    /\ current_start = 0
    /\ all_txs = <<>>
    /\ gt_pc = "idle"
    /\ gt_raised = NoError
    /\ requests = <<>>

\* lines 67-73: the call starts, reading the clock once
GtEnter ==
    /\ gt_pc = "idle"
    /\ now' = clock
    /\ start_date' = clock - days * DaySeconds
    /\ all_txs' = <<>>
    /\ current_start' = clock - days * DaySeconds
    /\ gt_pc' = GtLoopOrReturn(clock - days * DaySeconds, clock)
    /\ gt_raised' = NoError
    /\ UNCHANGED <<days, requests>>

\* lines 73-92: one iteration of the loop, get_statements ending with outcome o
GtFetch(o) ==
    /\ gt_pc = "loop"
    /\ requests' = Append(requests, [from |-> current_start,
                                      to |-> ChunkEnd(current_start, now),
                                      out |-> o])
    /\ UNCHANGED <<days, now, start_date>>
    /\ IF o.kind = "ok"
         THEN \* lines 81, 92, 73
              /\ all_txs' = all_txs \o o.val
              /\ current_start' = ChunkEnd(current_start, now)
              /\ gt_pc' = GtLoopOrReturn(ChunkEnd(current_start, now), now)
              /\ UNCHANGED gt_raised
         ELSE IF StopsOn429(o.err) \/ StopsOn400(o.err)
           THEN \* lines 85, 88: break, then line 94: return all_txs
                /\ gt_pc' = "returned"
                /\ UNCHANGED <<all_txs, current_start, gt_raised>>
           ELSE \* line 90: raise e
                /\ gt_pc' = "raised"
                /\ gt_raised' = o.err
                /\ UNCHANGED <<all_txs, current_start>>

GtDone == gt_pc \in {"returned", "raised"}

\* How the call ended, as seen by its caller.
GtOutcome == IF gt_pc = "returned" THEN Returned(all_txs) ELSE Raised(gt_raised)

\* The wrapper is not in use.
WrapperIdle ==
    /\ retries = 0
    /\ initial_delay = 0
    /\ delay = 0
    /\ attempt = 0
    /\ wrapper_pc = "unused"
    /\ wrapper_result = NoResult
    /\ outcomes = <<>>
    /\ waits = <<>>

(***************************************************************************)
(* WiseClient.get_card_transactions (src/mcp/wise/client.py:168-256)       *)
(***************************************************************************)
\* line 168: days: int = 14
DefaultWiseDays == 14

\* A createdOn that datetime.fromisoformat rejects (lines 208, 249); no parsed
\* date is negative.
BadDate == -1

\* act.get("id") of an activity
ActivityIds == {"a1", "a2"}

\* data.get("cursor"): None, or a continuation token
None == "None"
Cursors == {None, "c1"}

\* line 172: .replace(hour=0, minute=0, second=0, microsecond=0)
MidnightOf(t) == t - (t % DaySeconds)

\* The activities of the API, as far as the code reads them (lines 192-205),
\* seen from a window [sd, n]: a settled card payment created before the
\* window, at its first second, at its last second, in the future or with
\* garbage for a date; a pending and a cancelled card payment; a transfer before
\* the window.
ActivityShapes(sd, n) ==
    {[type |-> "CARD_PAYMENT", status |-> "COMPLETED", createdOn |-> sd - 1],
     [type |-> "CARD_PAYMENT", status |-> "COMPLETED", createdOn |-> sd],
     [type |-> "CARD_PAYMENT", status |-> "COMPLETED", createdOn |-> n],
     [type |-> "CARD_PAYMENT", status |-> "COMPLETED", createdOn |-> n + 1],
     [type |-> "CARD_PAYMENT", status |-> "COMPLETED", createdOn |-> BadDate],
     [type |-> "CARD_PAYMENT", status |-> "PENDING", createdOn |-> sd],
     [type |-> "CARD_PAYMENT", status |-> "CANCELLED", createdOn |-> sd],
     [type |-> "TRANSFER", status |-> "COMPLETED", createdOn |-> sd - 1]}

Activities(sd, n) ==
    {[id |-> i, type |-> a.type, status |-> a.status, createdOn |-> a.createdOn] :
        i \in ActivityIds, a \in ActivityShapes(sd, n)}

\* data.get("activities", []): any list of up to MaxPageSize activities
ActivityLists(sd, n) ==
    UNION {[1 .. len -> Activities(sd, n)] : len \in 0 .. MaxPageSize}

\* lines 183-187: what one GET of /profiles/{pid}/activities can give: an HTTP
\* error (raise_for_status raises), a body that is not a JSON object (a list,
\* a string, null), or a page with or without a cursor
Responses(sd, n) ==
    {[kind |-> "error", activities |-> <<>>, cursor |-> None],
     [kind |-> "malformed", activities |-> <<>>, cursor |-> None]}
    \cup {[kind |-> "page", activities |-> l, cursor |-> c] :
            l \in ActivityLists(sd, n), c \in Cursors}

\* line 193: if act_id in seen_ids
AlreadySeen_Never(id, seen) == FALSE
AlreadySeen(id, seen) == id \in seen

\* lines 211, 247: a parsed date before the window start
IsOlder(created, sd) == created # BadDate /\ created < sd

\* The ids of the activities of a page that are card payments, completed or
\* pending, dated inside [sd, n], and whose id occurs neither in seen nor
\* earlier on the page.
EligibleIds(acts, seen, sd, n) ==
    {acts[i].id : i \in
        {k \in 1 .. Len(acts) :
            /\ acts[k].type = "CARD_PAYMENT"
            /\ acts[k].status \in {"COMPLETED", "PENDING"}
            /\ acts[k].createdOn # BadDate
            /\ acts[k].createdOn >= sd
            /\ acts[k].createdOn <= n
            /\ acts[k].id \notin seen
            /\ \A j \in 1 .. (k - 1) : acts[j].id # acts[k].id}}

\* lines 231-241: the transaction appended for an activity (with the id of the
\* activity it comes from)
CardTransaction(act) == [act |-> act.id, date |-> act.createdOn]

\* lines 191-241: the for loop over a page from position i on, giving the new
\* processed, seen_ids and the ids skipped as already seen
RECURSIVE ProcessActivities(_, _, _, _, _, _, _)
ProcessActivities(acts, i, proc, seen, skip, sd, n) ==
    IF i > Len(acts)
      THEN [processed |-> proc, seen_ids |-> seen, skipped |-> skip]
      ELSE LET act == acts[i] IN
        IF AlreadySeen(act.id, seen)
          THEN \* line 194: continue
               ProcessActivities(acts, i + 1, proc, seen, skip \cup {act.id}, sd, n)
          ELSE LET seen2 == seen \cup {act.id} IN
            IF act.type # "CARD_PAYMENT"
              THEN ProcessActivities(acts, i + 1, proc, seen2, skip, sd, n)
            ELSE IF act.status \notin {"COMPLETED", "PENDING"}
              THEN ProcessActivities(acts, i + 1, proc, seen2, skip, sd, n)
            ELSE IF act.createdOn = BadDate
              THEN \* line 209: continue
                   ProcessActivities(acts, i + 1, proc, seen2, skip, sd, n)
            ELSE IF act.createdOn < sd
              THEN \* line 212: break
                   [processed |-> proc, seen_ids |-> seen2, skipped |-> skip]
            ELSE IF act.createdOn > n
              THEN \* line 214: continue
                   ProcessActivities(acts, i + 1, proc, seen2, skip, sd, n)
            ELSE ProcessActivities(acts, i + 1,
                                   Append(proc, CardTransaction(act)),
                                   seen2, skip, sd, n)

\* line 256: sorted(processed, key=lambda x: x["date"], reverse=True), a stable
\* sort: the transaction t goes after every transaction of l not older than it
RECURSIVE InsertByDateDesc(_, _)
InsertByDateDesc(l, t) ==
    IF l = <<>> THEN <<t>>
    ELSE IF l[Len(l)].date >= t.date THEN Append(l, t)
    ELSE Append(InsertByDateDesc(SubSeq(l, 1, Len(l) - 1), t), l[Len(l)])

RECURSIVE SortedByDateDesc(_)
SortedByDateDesc(l) ==
    IF l = <<>> THEN <<>>
    ELSE InsertByDateDesc(SortedByDateDesc(SubSeq(l, 1, Len(l) - 1)), l[Len(l)])

\* lines 243-254: after the for loop, stop when the last activity of the page is
\* older than the window start or the response has no cursor
StopsPaging_IgnoresDate(acts, c, sd) == c = None
StopsPaging(acts, c, sd) ==
    \/ IsOlder(acts[Len(acts)].createdOn, sd)
    \/ c = None

\* No call of get_card_transactions was made yet.
WiseIdle ==
    /\ wise_now = 0
    /\ wise_start_date = 0
    /\ processed = <<>>
    /\ cursor = None
    /\ seen_ids = {}
    /\ wise_pc = "idle"
    /\ page_requests = 0
    /\ skipped = {}
    /\ older_seen = FALSE
    /\ cursorless_seen = FALSE
    /\ eligible = {}

\* The fetch layer is not in use.
FetchLayerIdle ==
    /\ days = 0
    /\ GtIdle
    /\ WrapperIdle
    /\ wise_days = 0
    /\ WiseIdle
    /\ StatsIdle
    /\ AuthIdle
    /\ TransfersIdle
    /\ TasksIdle
    /\ CallsIdle
    /\ AccountsIdle

\* lines 170-176: the call starts
WiseEnter ==
    /\ wise_pc = "idle"
    /\ wise_now' = clock
    /\ wise_start_date' = MidnightOf(clock - wise_days * DaySeconds)
    /\ processed' = <<>>
    /\ cursor' = None
    /\ seen_ids' = {}
    /\ wise_pc' = "paging"
    /\ UNCHANGED <<wise_days, page_requests, skipped, older_seen,
                   cursorless_seen, eligible>>

\* lines 178-256: one iteration of the while loop, the GET answering with resp;
\* when the loop ends, the sorted list is returned
WiseFetchPage(resp) ==
    /\ wise_pc = "paging"
    /\ page_requests < MaxPages
    /\ page_requests' = page_requests + 1
    /\ UNCHANGED <<wise_days, wise_now, wise_start_date>>
    /\ IF resp.kind = "error"
         THEN \* line 184: raise_for_status() raises
              /\ wise_pc' = "raised"
              /\ UNCHANGED <<processed, cursor, seen_ids, skipped, older_seen,
                             cursorless_seen, eligible>>
         ELSE IF resp.kind = "malformed"
         THEN \* line 187: data.get raises AttributeError, which nothing in
              \* get_card_transactions catches
              /\ wise_pc' = "raised_attribute"
              /\ UNCHANGED <<processed, cursor, seen_ids, skipped, older_seen,
                             cursorless_seen, eligible>>
         ELSE /\ older_seen' =
                    (older_seen \/ \E i \in 1 .. Len(resp.activities) :
                        IsOlder(resp.activities[i].createdOn, wise_start_date))
              /\ cursorless_seen' = (cursorless_seen \/ resp.cursor = None)
              /\ eligible' = eligible \cup EligibleIds(resp.activities, seen_ids,
                                                       wise_start_date, wise_now)
              /\ IF resp.activities = <<>>
                   THEN \* line 189: break
                        /\ wise_pc' = "returned"
                        /\ processed' = SortedByDateDesc(processed)
                        /\ UNCHANGED <<cursor, seen_ids, skipped>>
                   ELSE LET r == ProcessActivities(resp.activities, 1, processed,
                                                   seen_ids, skipped,
                                                   wise_start_date, wise_now)
                            stop == StopsPaging(resp.activities, resp.cursor,
                                                wise_start_date)
                        IN /\ seen_ids' = r.seen_ids
                           /\ skipped' = r.skipped
                           /\ cursor' =
                                IF IsOlder(resp.activities[Len(resp.activities)].createdOn,
                                           wise_start_date)
                                  THEN cursor ELSE resp.cursor
                           /\ wise_pc' = IF stop THEN "returned" ELSE "paging"
                           /\ processed' = IF stop
                                             THEN SortedByDateDesc(r.processed)
                                             ELSE r.processed

(***************************************************************************)
(* SpecWise: WiseClient.get_card_transactions(days) against an arbitrary   *)
(* activities API.                                                         *)
(***************************************************************************)
WiseInit ==
    /\ clock \in StartClocks
    /\ wise_days = DefaultWiseDays
    /\ WiseIdle
    /\ StatsIdle
    /\ AuthIdle
    /\ TransfersIdle
    /\ TasksIdle
    /\ CallsIdle
    /\ AccountsIdle
    /\ days = 0
    /\ GtIdle
    /\ WrapperIdle
    /\ ReportLayerIdle

WiseCall == WiseEnter /\ UNCHANGED <<clock, outside_wise>>

WisePage ==
    /\ \E resp \in Responses(wise_start_date, wise_now) : WiseFetchPage(resp)
    /\ UNCHANGED <<clock, outside_wise>>

WiseNext == WiseCall \/ WisePage

SpecWise == WiseInit /\ [][WiseNext]_vars

(***************************************************************************)
(* SpecChunk: MonobankClient.get_transactions(account_id, days) called     *)
(* directly, as the tool get_transactions of                               *)
(* src/mcp_servers/monobank/server.py does.                                *)
(***************************************************************************)
ChunkInit ==
    /\ clock \in StartClocks
    /\ days \in 0 .. MaxDays
    /\ GtIdle
    /\ WrapperIdle
    /\ wise_days = 0
    /\ WiseIdle
    /\ StatsIdle
    /\ AuthIdle
    /\ TransfersIdle
    /\ TasksIdle
    /\ CallsIdle
    /\ AccountsIdle
    /\ ReportLayerIdle

ChunkEnter == GtEnter /\ UNCHANGED <<clock, outside_chunk>>

ChunkFetch ==
    /\ \E o \in FetchOutcomes(Len(requests) + 1) : GtFetch(o)
    /\ UNCHANGED <<clock, outside_chunk>>

ChunkNext == ChunkEnter \/ ChunkFetch

SpecChunk == ChunkInit /\ [][ChunkNext]_vars

(***************************************************************************)
(* SpecTool: the tool monobank_get_transactions, rate_limit_retry() with   *)
(* its default arguments around get_transactions                           *)
(* (src/mcp/mcp_server.py:93-106).                                         *)
(***************************************************************************)
\* line 51: retries: int = 3
DefaultRetries == 3

\* line 51: initial_delay: int = 5
DefaultInitialDelay == 5

\* line 95: days: int = 30
DefaultDays == 30

ToolInit ==
    /\ clock \in StartClocks
    /\ days \in {DefaultDays, MaxDays}
    /\ retries = DefaultRetries
    /\ initial_delay = DefaultInitialDelay
    /\ delay = 0
    /\ attempt = 0
    /\ wrapper_pc = "ready"
    /\ wrapper_result = NoResult
    /\ outcomes = <<>>
    /\ waits = <<>>
    /\ GtIdle
    /\ wise_days = 0
    /\ WiseIdle
    /\ StatsIdle
    /\ AuthIdle
    /\ TransfersIdle
    /\ TasksIdle
    /\ CallsIdle
    /\ AccountsIdle
    /\ ReportLayerIdle

\* The tool is called: the wrapper starts.
ToolEnter == WrapperEnter /\ UNCHANGED <<gt_vars, outside_tool>>

\* mcp_server.py:62, 105-106: the wrapper invokes the tool's body, which calls
\* client.get_transactions
ToolInvoke ==
    /\ wrapper_pc = "loop"
    /\ GtEnter
    /\ wrapper_pc' = "func"
    /\ UNCHANGED <<clock, retries, initial_delay, delay, attempt,
                   wrapper_result, outcomes, waits, outside_tool>>

\* One statement fetch of the running get_transactions.
ToolFetch ==
    /\ wrapper_pc = "func"
    /\ \E o \in FetchOutcomes(Len(requests) + 1) : GtFetch(o)
    /\ UNCHANGED <<clock, wrapper_vars, outside_tool>>

\* mcp_server.py:62-71: get_transactions has ended and the wrapper handles its
\* outcome
ToolFinish ==
    /\ wrapper_pc = "func"
    /\ GtDone
    /\ WrapperHandle(GtOutcome)
    /\ gt_pc' = "idle"
    /\ UNCHANGED <<days, now, start_date, current_start, all_txs, gt_raised,
                   requests, outside_tool>>

ToolNext == ToolEnter \/ ToolInvoke \/ ToolFetch \/ ToolFinish

SpecTool == ToolInit /\ [][ToolNext]_vars

(***************************************************************************)
(* SpecRetry: rate_limit_retry(retries, initial_delay) around an arbitrary *)
(* operation.                                                              *)
(***************************************************************************)
RetryInit ==
    /\ clock \in StartClocks
    /\ retries \in 0 .. MaxRetries
    /\ initial_delay \in -1 .. MaxInitialDelay
    /\ delay = 0
    /\ attempt = 0
    /\ wrapper_pc = "ready"
    /\ wrapper_result = NoResult
    /\ outcomes = <<>>
    /\ waits = <<>>
    /\ days = 0
    /\ GtIdle
    /\ wise_days = 0
    /\ WiseIdle
    /\ StatsIdle
    /\ AuthIdle
    /\ TransfersIdle
    /\ TasksIdle
    /\ CallsIdle
    /\ AccountsIdle
    /\ ReportLayerIdle

RetryEnter == WrapperEnter /\ UNCHANGED outside_retry

RetryAttempt ==
    /\ wrapper_pc = "loop"
    /\ \E o \in FuncOutcomes : WrapperHandle(o)
    /\ UNCHANGED outside_retry

RetryTail ==
    /\ wrapper_pc = "tail"
    /\ \E o \in FuncOutcomes : WrapperTail(o)
    /\ UNCHANGED outside_retry

RetryNext == RetryEnter \/ RetryAttempt \/ RetryTail

SpecRetry == RetryInit /\ [][RetryNext]_vars

(***************************************************************************)
(* Claims about rate_limit_retry, checked under SpecRetry.                 *)
(***************************************************************************)
RateLimitFailure(o) == o.kind = "err" /\ (o.err.s429 \/ o.err.sTMR)
OtherFailure(o) == o.kind = "err" /\ ~o.err.s429 /\ ~o.err.sTMR

\* C1 (as stated): for every value of retries, one call of the wrapper invokes
\* the wrapped operation at most `retries` times.
C1_AtMostRetriesInvocations == Len(outcomes) <= retries

\* C1 (amended): one call of the wrapper invokes the wrapped operation at most
\* `retries` times when retries >= 1, and exactly once when retries = 0 (line
\* 72 runs the operation when the loop has no iteration).
C1_AtMostRetriesOrOneInvocation ==
    /\ retries >= 1 => Len(outcomes) <= retries
    /\ retries = 0 => Len(outcomes) <= 1
    /\ (retries = 0 /\ WrapperDone) => Len(outcomes) = 1

C1_Witness ==
    /\ WrapperDone
    /\ retries >= 2
    /\ Len(outcomes) = retries

\* C2: an invocation that fails with an error carrying no rate-limit signal is
\* the last invocation, the wrapper raises that very error, and no wait follows
\* it (the only waits are those before it).
C2_OtherFailurePropagatesAtOnce ==
    \A i \in 1 .. Len(outcomes) :
        OtherFailure(outcomes[i]) =>
            /\ i = Len(outcomes)
            /\ wrapper_pc = "raised"
            /\ wrapper_result = [kind |-> "raise", src |-> "func", n |-> i,
                                 val |-> <<>>, err |-> outcomes[i].err]
            /\ Len(waits) = i - 1

C2_Witness ==
    /\ Len(outcomes) >= 2
    /\ OtherFailure(outcomes[Len(outcomes)])
    /\ wrapper_pc = "raised"
    /\ retries > Len(outcomes)

\* C3: the k-th wait lasts initial_delay * 2^(k-1) seconds, it follows the
\* rate-limited failure of the k-th attempt and precedes another attempt, and
\* there is no other wait.
C3_ExponentialBackoff ==
    /\ \A k \in 1 .. Len(waits) :
          /\ waits[k] = initial_delay * Pow2(k - 1)
          /\ k <= Len(outcomes)
          /\ RateLimitFailure(outcomes[k])
          /\ k < retries
    /\ Len(waits) <= Len(outcomes)
    /\ WrapperDone => Len(waits) = Len(outcomes) - 1
    /\ wrapper_pc = "loop" => Len(waits) = Len(outcomes)

C3_Witness ==
    /\ Len(waits) >= 2
    /\ initial_delay >= 1
    /\ waits[2] = 2 * waits[1]

\* C4: when all `retries` attempts fail with a rate-limit signal the wrapper
\* raises the error of the last attempt, and only retries - 1 waits happened
\* (none after the last attempt).
C4_ExhaustedRaisesLastError ==
    (/\ retries >= 1
     /\ Len(outcomes) = retries
     /\ \A i \in 1 .. Len(outcomes) : RateLimitFailure(outcomes[i]))
    => /\ wrapper_pc = "raised"
       /\ wrapper_result = [kind |-> "raise", src |-> "func", n |-> retries,
                            val |-> <<>>, err |-> outcomes[retries].err]
       /\ Len(waits) = retries - 1

C4_Witness ==
    /\ retries >= 2
    /\ Len(outcomes) = retries
    /\ \A i \in 1 .. Len(outcomes) : RateLimitFailure(outcomes[i])
    /\ outcomes[1].err # outcomes[retries].err
    /\ wrapper_pc = "raised"

(***************************************************************************)
(* Claims about MonobankClient.get_transactions, checked under SpecChunk.  *)
(***************************************************************************)
AllFetched == \A k \in 1 .. Len(requests) : requests[k].out.kind = "ok"

\* The records of the requests 1 .. k, in order.
RECURSIVE RecordsUpTo(_)
RecordsUpTo(k) ==
    IF k <= 0 THEN <<>> ELSE RecordsUpTo(k - 1) \o requests[k].out.val

\* C5: with days = D > 0 and no failing fetch, the call issues exactly
\* ceil(D/30) get_statements requests; the first window starts at now - D days,
\* every window starts where the one before ended, none is empty or longer than
\* 30 days, and the last ends at now.
C5_ChunksCoverRange ==
    (gt_pc = "returned" /\ days > 0 /\ AllFetched) =>
        /\ Len(requests) = (days + 29) \div 30
        /\ requests[1].from = now - days * 86400
        /\ requests[Len(requests)].to = now
        /\ \A k \in 1 .. Len(requests) :
              /\ requests[k].from < requests[k].to
              /\ requests[k].to - requests[k].from <= 30 * 86400
              /\ k > 1 => requests[k].from = requests[k - 1].to

C5_Witness ==
    /\ gt_pc = "returned"
    /\ days = 65
    /\ AllFetched
    /\ Len(requests) = 3
    /\ requests[3].to - requests[3].from = 5 * 86400

\* C6: when the k-th chunk fetch fails with an error whose text contains '429',
\* the call returns (it does not raise) exactly the records of chunks 1 .. k-1
\* in order, and the k-th request is the last one.
C6_RateLimitReturnsPartial ==
    \A k \in 1 .. Len(requests) :
        (requests[k].out.kind = "err" /\ requests[k].out.err.s429) =>
            /\ gt_pc = "returned"
            /\ k = Len(requests)
            /\ all_txs = RecordsUpTo(k - 1)

C6_Witness ==
    /\ Len(requests) = 2
    /\ days > 60
    /\ requests[1].out.kind = "ok"
    /\ Len(requests[1].out.val) = 1
    /\ requests[2].out.kind = "err"
    /\ requests[2].out.err.s429
    /\ ~requests[2].out.err.s400
    /\ gt_pc = "returned"
    /\ Len(all_txs) = 1

\* C7: when the k-th chunk fetch fails with an error whose text contains '400',
\* the call returns (it does not raise) the records of chunks 1 .. k-1, and the
\* k-th request is the last one.
C7_InvalidRangeReturnsPartial ==
    \A k \in 1 .. Len(requests) :
        (requests[k].out.kind = "err" /\ requests[k].out.err.s400) =>
            /\ gt_pc = "returned"
            /\ k = Len(requests)
            /\ all_txs = RecordsUpTo(k - 1)

C7_Witness ==
    /\ Len(requests) = 2
    /\ requests[1].out.kind = "ok"
    /\ Len(requests[1].out.val) = 1
    /\ requests[2].out.kind = "err"
    /\ requests[2].out.err.s400
    /\ ~requests[2].out.err.s429
    /\ gt_pc = "returned"
    /\ Len(all_txs) = 1

(***************************************************************************)
(* Claims about the tool monobank_get_transactions, checked under SpecTool.*)
(***************************************************************************)
\* C8: a statement fetch that fails with a rate-limit error (429) is retried
\* with backoff before the tool call ends: when the call has ended, every fetch
\* that failed with a 429 was followed by a wait and by another fetch, unless
\* the attempt budget was used up.
C8_RateLimitedFetchIsRetried ==
    WrapperDone =>
        \A k \in 1 .. Len(requests) :
            (requests[k].out.kind = "err" /\ requests[k].out.err.s429) =>
                \/ Len(waits) >= 1 /\ k < Len(requests)
                \/ Len(outcomes) = retries

(***************************************************************************)
(* Claims about WiseClient.get_card_transactions, checked under SpecWise.  *)
(***************************************************************************)
\* C9: at most one transaction is emitted per activity id, whatever pages the
\* API returns.
C9_OneTransactionPerActivityId ==
    \A i, j \in 1 .. Len(processed) :
        i # j => processed[i].act # processed[j].act

C9_Witness ==
    /\ wise_pc = "returned"
    /\ page_requests >= 2
    /\ Len(processed) = 2
    /\ processed[1].date > processed[2].date
    /\ \E i \in 1 .. Len(processed) : processed[i].act \in skipped

\* C10: once a fetched page contained a record older than the window start, or
\* a response came without a cursor, no further page is requested.
C10_NoPageAfterOlderOrCursorless ==
    [][(older_seen \/ cursorless_seen) => page_requests' = page_requests]_vars

(***************************************************************************)
(* WiseClient._categorize_merchant (src/mcp/wise/client.py:258-280)        *)
(* A merchant name is modelled by the keywords that occur in its           *)
(* lower-cased form, and by whether it is written in upper case (no        *)
(* keyword, all of them lower case, occurs in it before lower()).          *)
(***************************************************************************)
\* The most keywords one merchant name holds.
MaxNameKeywords == 2

\* lines 262-278: the chain of if statements, as the list of its keyword lists
\* and returned labels in the order it is written in
Rules_ShoppingBeforeSubscriptions ==
    << [category |-> "Transport",
        keywords |-> {"uber", "bolt", "lyft", "taxi", "cabify"}],
       [category |-> "Groceries",
        keywords |-> {"lidl", "aldi", "pingo doce", "continente", "mercado",
                      "supermarket", "grocery"}],
       [category |-> "Restaurants",
        keywords |-> {"restaurant", "cafe", "coffee", "starbucks", "mcdonald",
                      "burger", "pizza", "sushi"}],
       [category |-> "Shopping",
        keywords |-> {"amazon", "ebay", "aliexpress", "shop", "store",
                      "market"}],
       [category |-> "Subscriptions",
        keywords |-> {"patreon", "netflix", "spotify", "youtube", "apple",
                      "google", "amazon prime"}],
       [category |-> "Health & Fitness",
        keywords |-> {"pharmacy", "farmacia", "gym", "yoga", "fitness",
                      "health"}] >>
Rules ==
    << [category |-> "Transport",
        keywords |-> {"uber", "bolt", "lyft", "taxi", "cabify"}],
       [category |-> "Groceries",
        keywords |-> {"lidl", "aldi", "pingo doce", "continente", "mercado",
                      "supermarket", "grocery"}],
       [category |-> "Restaurants",
        keywords |-> {"restaurant", "cafe", "coffee", "starbucks", "mcdonald",
                      "burger", "pizza", "sushi"}],
       [category |-> "Subscriptions",
        keywords |-> {"patreon", "netflix", "spotify", "youtube", "apple",
                      "google", "amazon prime"}],
       [category |-> "Health & Fitness",
        keywords |-> {"pharmacy", "farmacia", "gym", "yoga", "fitness",
                      "health"}],
       [category |-> "Shopping",
        keywords |-> {"amazon", "ebay", "aliexpress", "shop", "store",
                      "market"}] >>

\* Every keyword of lines 262-277.
AllKeywords ==
    {"uber", "bolt", "lyft", "taxi", "cabify",
     "lidl", "aldi", "pingo doce", "continente", "mercado", "supermarket",
     "grocery",
     "restaurant", "cafe", "coffee", "starbucks", "mcdonald", "burger",
     "pizza", "sushi",
     "patreon", "netflix", "spotify", "youtube", "apple", "google",
     "amazon prime",
     "pharmacy", "farmacia", "gym", "yoga", "fitness", "health",
     "amazon", "ebay", "aliexpress", "shop", "store", "market"}

\* A text that holds "amazon prime" holds "amazon", one that holds
\* "supermarket" holds "market".
SubstringClosed(ks) ==
    /\ "amazon prime" \in ks => "amazon" \in ks
    /\ "supermarket" \in ks => "market" \in ks

\* The sets of at most k keywords.
RECURSIVE KeywordSets(_)
KeywordSets(k) ==
    IF k = 0 THEN {{}}
    ELSE LET smaller == KeywordSets(k - 1)
         IN  smaller \cup {ks \cup {kw} : ks \in smaller, kw \in AllKeywords}

\* The merchant names activity titles are drawn from.
MerchantNames ==
    {[upper |-> u, keywords |-> ks] :
        u \in BOOLEAN,
        ks \in {x \in KeywordSets(MaxNameKeywords) : SubstringClosed(x)}}

\* line 260: merchant_lower = merchant.lower()
Lower_Unchanged(name) == name
Lower(name) == [name EXCEPT !.upper = FALSE]

\* lines 262-277: x in merchant_lower
Contains(text, keyword) == ~text.upper /\ keyword \in text.keywords

\* lines 262-280: the if statements from the i-th on, and the final return
RECURSIVE FirstMatch(_, _)
FirstMatch(merchant_lower, i) ==
    IF i > Len(Rules)
      THEN "Card Payment"
      ELSE IF \E x \in Rules[i].keywords : Contains(merchant_lower, x)
             THEN Rules[i].category
             ELSE FirstMatch(merchant_lower, i + 1)

\* lines 258-280
CategorizeMerchant(name) == FirstMatch(Lower(name), 1)

\* _categorize_merchant(merchant_name) is called and returns.
Categorize ==
    /\ category = "unset"
    /\ category' = CategorizeMerchant(merchant_name)
    /\ UNCHANGED merchant_name

(***************************************************************************)
(* SpecCategorize: _categorize_merchant on an arbitrary merchant name.     *)
(***************************************************************************)
CategorizeInit ==
    /\ clock \in StartClocks
    /\ FetchLayerIdle
    /\ merchant_name \in MerchantNames
    /\ category = "unset"
    /\ NormalizeIdle
    /\ RecurringIdle
    /\ ReportIdle
    /\ FetchAllIdle

CategorizeCall == Categorize /\ UNCHANGED outside_categorize

CategorizeNext == CategorizeCall

SpecCategorize == CategorizeInit /\ [][CategorizeNext]_vars

(***************************************************************************)
(* Claims about _categorize_merchant, checked under SpecCategorize.        *)
(***************************************************************************)
\* The keywords of the rule of category c, and the keywords of merchant_name
\* once lower-cased.
C20_KeywordsOf(c) ==
    UNION {Rules[i].keywords : i \in {j \in 1 .. Len(Rules) : Rules[j].category = c}}

C20_AuthoredOrder ==
    <<"Transport", "Groceries", "Restaurants", "Subscriptions",
      "Health & Fitness", "Shopping">>

C20_Matches(i) ==
    C20_KeywordsOf(C20_AuthoredOrder[i]) \cap merchant_name.keywords # {}

\* C20: the category returned is that of the first rule, in the order
\* Transport, Groceries, Restaurants, Subscriptions, Health & Fitness,
\* Shopping, one of whose keywords occurs in the lower-cased merchant name, and
\* "Card Payment" when no rule has one; a name that holds "amazon prime" and no
\* keyword of an earlier rule gives Subscriptions, and never Shopping.
C20_FirstRuleInAuthoredOrderWins ==
    category # "unset" =>
        /\ \/ /\ \A i \in 1 .. Len(C20_AuthoredOrder) : ~C20_Matches(i)
              /\ category = "Card Payment"
           \/ \E i \in 1 .. Len(C20_AuthoredOrder) :
                /\ C20_Matches(i)
                /\ \A j \in 1 .. (i - 1) : ~C20_Matches(j)
                /\ category = C20_AuthoredOrder[i]
        /\ "amazon prime" \in merchant_name.keywords =>
                /\ category # "Shopping"
                /\ (\A j \in 1 .. 3 : ~C20_Matches(j)) => category = "Subscriptions"

\* An upper-case name holding "amazon prime" was categorized.
C20_Witness ==
    /\ category = "Subscriptions"
    /\ merchant_name.upper
    /\ merchant_name.keywords = {"amazon prime", "amazon"}

(***************************************************************************)
(* The adapters' normalisation of one raw record into a transaction:       *)
(*   MonobankClient.get_all_transactions (src/mcp/monobank/client.py       *)
(*   224-244), WiseClient.get_card_transactions (src/mcp/wise/client.py    *)
(*   196-241) and WiseClient.get_transfers (src/mcp/wise/client.py         *)
(*   126-164). The record's date is taken to be inside the window. Amounts *)
(*   are counted in minor units (1/100 of the currency).                   *)
(***************************************************************************)
\* The largest amount of a raw record, in minor units.
MaxAmount == 2

\* The texts of primaryAmount and secondaryAmount: parts is the number of
\* blank-separated parts once the commas are removed, numeric tells whether
\* float(parts[0]) succeeds, value is that float, currency is parts[1].
\* "" (also a missing field), a text that does not start with a number such as
\* "<positive>+ 12 EUR</positive>", a lone number, and "<value> <currency>".
AmountStrings ==
    {[parts |-> 0, numeric |-> FALSE, value |-> 0, currency |-> ""],
     [parts |-> 3, numeric |-> FALSE, value |-> 0, currency |-> "12"],
     [parts |-> 1, numeric |-> TRUE, value |-> MaxAmount, currency |-> ""]}
    \cup {[parts |-> 2, numeric |-> TRUE, value |-> v, currency |-> c] :
            v \in 0 .. MaxAmount, c \in {"EUR", "USD"}}

\* wise/client.py:8-24
ParseAmountString(amount_str) ==
    IF amount_str.parts = 0
      THEN [amount |-> 0, currency |-> "EUR"]
      ELSE IF amount_str.parts >= 2 /\ amount_str.numeric
             THEN [amount |-> amount_str.value, currency |-> amount_str.currency]
             ELSE [amount |-> 0, currency |-> "EUR"]

\* The raw records: a Monobank statement item, a Wise activity, a Wise transfer.
MonobankItems ==
    {[adapter |-> "monobank", amount |-> a] : a \in (0 - MaxAmount) .. MaxAmount}

WiseActivitiesRaw ==
    {[adapter |-> "wise_card", type |-> t, status |-> st, primaryAmount |-> pa,
      secondaryAmount |-> sa] :
        t \in {"CARD_PAYMENT", "TRANSFER"},
        st \in {"COMPLETED", "PENDING", "CANCELLED"},
        pa \in AmountStrings, sa \in AmountStrings}

WiseTransfersRaw ==
    {[adapter |-> "wise_transfer", status |-> st, sourceValue |-> v,
      sourceAccount |-> acc] :
        st \in {"outgoing_payment_sent", "funds_converted", "cancelled"},
        v \in 0 .. MaxAmount, acc \in {"None", "account"}}

RawRecords == MonobankItems \cup WiseActivitiesRaw \cup WiseTransfersRaw

\* monobank/client.py:231-244
MonobankTransaction(tx) ==
    LET amount == tx.amount
    IN  [amount |-> amount, currency |-> "UAH", source |-> "Monobank",
         is_expense |-> amount < 0]

\* wise/client.py:216-241
WiseCardTransaction(act) ==
    LET primary == ParseAmountString(act.primaryAmount)
        sec == ParseAmountString(act.secondaryAmount)
        use_sec == act.secondaryAmount.parts # 0 /\ sec.amount > 0
        amount == IF use_sec THEN sec.amount ELSE primary.amount
        currency == IF use_sec THEN sec.currency ELSE primary.currency
    IN  [amount |-> 0 - amount, currency |-> currency, source |-> "Wise",
         is_expense |-> TRUE]

\* wise/client.py:140-164
WiseTransferTransaction(tx) ==
    LET source_value == tx.sourceValue
        is_incoming == tx.sourceAccount = "None"
    IN  [amount |-> IF is_incoming THEN source_value ELSE 0 - source_value,
         currency |-> "EUR", source |-> "Wise", is_expense |-> ~is_incoming]

\* monobank/client.py:224-244: one iteration of the loop over a statement
NormalizeMonobank ==
    /\ norm_pc = "idle"
    /\ raw.adapter = "monobank"
    /\ emitted' = <<MonobankTransaction(raw)>>
    /\ norm_pc' = "done"
    /\ UNCHANGED raw

\* wise/client.py:199-241: one iteration of the loop over a page
NormalizeWiseCard_NoFilter ==
    /\ norm_pc = "idle"
    /\ raw.adapter = "wise_card"
    /\ emitted' = <<WiseCardTransaction(raw)>>
    /\ norm_pc' = "done"
    /\ UNCHANGED raw

NormalizeWiseCard ==
    /\ norm_pc = "idle"
    /\ raw.adapter = "wise_card"
    /\ emitted' = IF raw.type # "CARD_PAYMENT"
                    THEN <<>>
                  ELSE IF raw.status \notin {"COMPLETED", "PENDING"}
                    THEN <<>>
                  ELSE <<WiseCardTransaction(raw)>>
    /\ norm_pc' = "done"
    /\ UNCHANGED raw

\* wise/client.py:126-164: one iteration of the loop over the transfers
NormalizeWiseTransfer ==
    /\ norm_pc = "idle"
    /\ raw.adapter = "wise_transfer"
    /\ emitted' = IF raw.status \notin {"outgoing_payment_sent", "funds_converted"}
                    THEN <<>>
                    ELSE <<WiseTransferTransaction(raw)>>
    /\ norm_pc' = "done"
    /\ UNCHANGED raw

(***************************************************************************)
(* SpecNormalize: each adapter on an arbitrary raw record.                 *)
(***************************************************************************)
NormalizeInit ==
    /\ clock \in StartClocks
    /\ FetchLayerIdle
    /\ raw \in RawRecords
    /\ emitted = <<>>
    /\ norm_pc = "idle"
    /\ CategorizeIdle
    /\ RecurringIdle
    /\ ReportIdle
    /\ FetchAllIdle

NormalizeMonobankItem == NormalizeMonobank /\ UNCHANGED outside_normalize

NormalizeWiseActivity == NormalizeWiseCard /\ UNCHANGED outside_normalize

NormalizeWiseTransferItem == NormalizeWiseTransfer /\ UNCHANGED outside_normalize

NormalizeNext ==
    NormalizeMonobankItem \/ NormalizeWiseActivity \/ NormalizeWiseTransferItem

SpecNormalize == NormalizeInit /\ [][NormalizeNext]_vars

(***************************************************************************)
(* Claims about the adapters' normalisation, checked under SpecNormalize.  *)
(***************************************************************************)
\* C14: every transaction an adapter emits has is_expense = (amount < 0).
C14_ExpenseFlagFollowsSign ==
    \A i \in 1 .. Len(emitted) :
        emitted[i].is_expense = (emitted[i].amount < 0)

\* C22: a transaction emitted by get_card_transactions comes from an activity
\* of type CARD_PAYMENT and status COMPLETED or PENDING, one emitted by
\* get_transfers from a transfer of status outgoing_payment_sent or
\* funds_converted; a record of another type or status emits nothing.
C22_OnlyRetainedTypeAndStatus ==
    norm_pc = "done" =>
        /\ raw.adapter = "wise_card" =>
              (emitted # <<>> <=>
                 (/\ raw.type = "CARD_PAYMENT"
                  /\ raw.status \in {"COMPLETED", "PENDING"}))
        /\ raw.adapter = "wise_transfer" =>
              (emitted # <<>> <=>
                 raw.status \in {"outgoing_payment_sent", "funds_converted"})

\* A cancelled card payment was handled and nothing was emitted.
C22_Witness ==
    /\ norm_pc = "done"
    /\ raw.adapter = "wise_card"
    /\ raw.type = "CARD_PAYMENT"
    /\ raw.status = "CANCELLED"
    /\ emitted = <<>>

(***************************************************************************)
(* MonobankClient.detect_recurring_payments                                *)
(* (src/mcp/monobank/client.py:143-178, and the same code at               *)
(* src/mcp_servers/monobank/client.py:118-162)                             *)
(* Amounts are counted in minor units, avg_interval_days in tenths of a    *)
(* day. A description is modelled by its text without the blanks around    *)
(* it, and by whether it has such blanks.                                  *)
(***************************************************************************)
\* The longest statement list get_transactions returns.
MaxStatement == 3

\* The times of statement items: a first charge, charges 30 and 60 days later,
\* and one 100000 seconds after the first.
RecurBase == 1000000000
RecurTimes == {RecurBase, RecurBase + 30 * DaySeconds, RecurBase + 60 * DaySeconds}

Descriptions ==
    {[text |-> "Netflix", padded |-> FALSE],
     [text |-> "Netflix", padded |-> TRUE],
     [text |-> "Spotify", padded |-> FALSE]}

\* The statement items of the API, as far as the code reads them (lines 151,
\* 152, 162).
StatementItems ==
    {[description |-> d, amount |-> a, time |-> t] :
        d \in Descriptions, a \in {-999, 999}, t \in RecurTimes}
    \cup {[description |-> [text |-> "Netflix", padded |-> FALSE],
           amount |-> -500, time |-> RecurBase + 30 * DaySeconds],
          [description |-> [text |-> "Netflix", padded |-> FALSE],
           amount |-> -999, time |-> RecurBase + 100000]}

RECURSIVE Statements(_)
Statements(k) ==
    IF k = 0 THEN {<<>>}
    ELSE LET shorter == Statements(k - 1)
         IN  shorter \cup {Append(l, tx) : l \in {x \in shorter : Len(x) = k - 1},
                                          tx \in StatementItems}

\* line 152: .strip()
Strip(desc) == [desc EXCEPT !.padded = FALSE]

\* line 154: if amount < 0
IsExpenseAmount_Any(amount) == TRUE
IsExpenseAmount(amount) == amount < 0

\* line 155: abs(amount)
Abs(x) == IF x < 0 THEN 0 - x ELSE x

\* lines 150-157: whether tx is put into a group, and the key of its group
Grouped(tx) == IsExpenseAmount(tx.amount) /\ Abs(tx.amount) > 0
GroupKey(tx) == [desc |-> Strip(tx.description), amount |-> Abs(tx.amount)]

\* lines 148-157: the keys of groups, in the order of their insertion
RECURSIVE GroupKeys(_)
GroupKeys(txs) ==
    IF txs = <<>> THEN <<>>
    ELSE LET before == GroupKeys(SubSeq(txs, 1, Len(txs) - 1))
             tx == txs[Len(txs)]
         IN  IF Grouped(tx) /\ \A i \in 1 .. Len(before) : before[i] # GroupKey(tx)
               THEN Append(before, GroupKey(tx))
               ELSE before

\* lines 148-157: groups[key]
RECURSIVE GroupOf(_, _)
GroupOf(txs, key) ==
    IF txs = <<>> THEN <<>>
    ELSE LET before == GroupOf(SubSeq(txs, 1, Len(txs) - 1), key)
             tx == txs[Len(txs)]
         IN  IF Grouped(tx) /\ GroupKey(tx) = key THEN Append(before, tx)
                                                  ELSE before

\* line 162: sorted([tx.get('time') for tx in txs])
RECURSIVE InsertAscending(_, _)
InsertAscending(l, t) ==
    IF l = <<>> THEN <<t>>
    ELSE IF l[Len(l)] <= t THEN Append(l, t)
    ELSE Append(InsertAscending(SubSeq(l, 1, Len(l) - 1), t), l[Len(l)])

RECURSIVE SortedTimes_Unsorted(_)
SortedTimes_Unsorted(txs) ==
    IF txs = <<>> THEN <<>>
    ELSE Append(SortedTimes_Unsorted(SubSeq(txs, 1, Len(txs) - 1)),
                txs[Len(txs)].time)

RECURSIVE SortedTimes(_)
SortedTimes(txs) ==
    IF txs = <<>> THEN <<>>
    ELSE InsertAscending(SortedTimes(SubSeq(txs, 1, Len(txs) - 1)),
                         txs[Len(txs)].time)

\* lines 163-165: sum of the intervals times[i] - times[i-1] from position i on
RECURSIVE SumIntervals(_, _)
SumIntervals(times, i) ==
    IF i > Len(times) THEN 0
    ELSE (times[i] - times[i - 1]) + SumIntervals(times, i + 1)

\* line 174: round(x, 1) for x = num / den, in tenths: the nearest tenth, and
\* the even one of two equally near
RoundTenths(num, den) ==
    LET q == (10 * num) \div den
        r == (10 * num) % den
    IN  IF 2 * r < den THEN q
        ELSE IF 2 * r > den THEN q + 1
        ELSE IF q % 2 = 0 THEN q ELSE q + 1

\* line 175: datetime.fromtimestamp(t).isoformat(): the calendar day and the
\* time of day of t
IsoFormat(t) == [day |-> t \div DaySeconds, second |-> t % DaySeconds]

\* lines 161-176: the entry of a group of more than one transaction
RecurringEntry(key, txs) ==
    LET times == SortedTimes(txs)
        n_intervals == Len(times) - 1
    IN  [description |-> key.desc,
         amount |-> key.amount,
         count |-> Len(txs),
         avg_interval_days |->
             IF n_intervals > 0
               THEN RoundTenths(SumIntervals(times, 2), n_intervals * DaySeconds)
               ELSE 0,
         last_transaction |-> IsoFormat(times[Len(times)])]

\* lines 159-176: the for loop over groups from position i on
RECURSIVE RecurringFrom(_, _, _)
RecurringFrom(txs, keys, i) ==
    IF i > Len(keys) THEN <<>>
    ELSE LET group == GroupOf(txs, keys[i])
             rest == RecurringFrom(txs, keys, i + 1)
         IN  IF Len(group) > 1
               THEN <<RecurringEntry(keys[i], group)>> \o rest
               ELSE rest

\* line 178: sorted(recurring, key=lambda x: x['count'], reverse=True), stable
RECURSIVE InsertByCountDesc_TiesFirst(_, _)
InsertByCountDesc_TiesFirst(l, e) ==
    IF l = <<>> THEN <<e>>
    ELSE IF l[Len(l)].count > e.count THEN Append(l, e)
    ELSE Append(InsertByCountDesc_TiesFirst(SubSeq(l, 1, Len(l) - 1), e),
                l[Len(l)])

RECURSIVE InsertByCountDesc(_, _)
InsertByCountDesc(l, e) ==
    IF l = <<>> THEN <<e>>
    ELSE IF l[Len(l)].count >= e.count THEN Append(l, e)
    ELSE Append(InsertByCountDesc(SubSeq(l, 1, Len(l) - 1), e), l[Len(l)])

RECURSIVE SortedByCountDesc(_)
SortedByCountDesc(l) ==
    IF l = <<>> THEN <<>>
    ELSE InsertByCountDesc(SortedByCountDesc(SubSeq(l, 1, Len(l) - 1)), l[Len(l)])

\* lines 147-178, for the list get_transactions returned
DetectRecurringPayments(txs) ==
    SortedByCountDesc(RecurringFrom(txs, GroupKeys(txs), 1))

\* detect_recurring_payments runs on the fetched list and returns.
DetectRecurring ==
    /\ rec_pc = "idle"
    /\ recurring' = DetectRecurringPayments(transactions)
    /\ rec_pc' = "done"
    /\ UNCHANGED transactions

(***************************************************************************)
(* SpecRecurring: detect_recurring_payments on an arbitrary fetched list.  *)
(***************************************************************************)
RecurringInit ==
    /\ clock \in StartClocks
    /\ FetchLayerIdle
    /\ transactions \in Statements(MaxStatement)
    /\ recurring = <<>>
    /\ rec_pc = "idle"
    /\ CategorizeIdle
    /\ NormalizeIdle
    /\ ReportIdle
    /\ FetchAllIdle

RecurringCall == DetectRecurring /\ UNCHANGED outside_recurring

RecurringNext == RecurringCall

SpecRecurring == RecurringInit /\ [][RecurringNext]_vars

(***************************************************************************)
(* Claims about detect_recurring_payments, checked under SpecRecurring.    *)
(***************************************************************************)
\* The positions of the expense transactions (amount < 0) of the fetched list
\* whose trimmed description and absolute amount are those of the entry e.
C16_Occurrences(desc, amount) ==
    {i \in 1 .. Len(transactions) :
        /\ transactions[i].amount < 0
        /\ transactions[i].description.text = desc.text
        /\ Abs(transactions[i].amount) = amount}

\* C16: the returned list has exactly one entry for each signature (trimmed
\* description, absolute amount) that at least 2 expense transactions of the
\* fetched list share, its count is the number of those transactions, and there
\* is no other entry; an empty list gives an empty list.
C16_OneEntryPerRepeatedSignature ==
    rec_pc = "done" =>
        /\ \A i \in 1 .. Len(recurring) :
            /\ ~recurring[i].description.padded
            /\ recurring[i].count =
                 Cardinality(C16_Occurrences(recurring[i].description,
                                             recurring[i].amount))
            /\ recurring[i].count >= 2
            /\ \A j \in 1 .. Len(recurring) :
                 (/\ recurring[j].description = recurring[i].description
                  /\ recurring[j].amount = recurring[i].amount) => j = i
        /\ \A k \in 1 .. Len(transactions) :
             LET tx == transactions[k]
                 occ == C16_Occurrences(tx.description, Abs(tx.amount))
             IN  (tx.amount < 0 /\ Cardinality(occ) >= 2) =>
                    \E i \in 1 .. Len(recurring) :
                        /\ recurring[i].description.text = tx.description.text
                        /\ recurring[i].amount = Abs(tx.amount)
        /\ transactions = <<>> => recurring = <<>>

\* A list with a repeated expense (once with blanks around its description), an
\* income of the same description and amount, and a single expense gave one
\* entry of count 2.
C16_Witness ==
    /\ rec_pc = "done"
    /\ Len(recurring) = 1
    /\ recurring[1].count = 2
    /\ \E i \in 1 .. Len(transactions) : transactions[i].amount > 0
    /\ \E i \in 1 .. Len(transactions) : transactions[i].description.padded
    /\ Len(transactions) = MaxStatement

\* The times of the transactions counted by the entry e.
C17_Times(e) ==
    {transactions[i].time : i \in C16_Occurrences(e.description, e.amount)}

C17_Max(S) == CHOOSE x \in S : \A y \in S : y <= x

C17_Min(S) == CHOOSE x \in S : \A y \in S : x <= y

\* C17: for every entry, avg_interval_days is (tn - t1) / ((n - 1) * 86400)
\* rounded to one decimal, where t1 and tn are the earliest and the latest time
\* of the n transactions of the group (30.0 for t, t + 30 d, t + 60 d), and
\* last_transaction is tn.
C17_AverageIntervalAndLast ==
    rec_pc = "done" =>
        \A i \in 1 .. Len(recurring) :
            LET e == recurring[i]
                ts == C17_Times(e)
                span == C17_Max(ts) - C17_Min(ts)
                den == (e.count - 1) * DaySeconds
            IN  /\ 2 * Abs(e.avg_interval_days * den - 10 * span) <= den
                /\ e.last_transaction.day * DaySeconds + e.last_transaction.second
                     = C17_Max(ts)
                /\ (e.count = 3 /\ \E t \in ts :
                        ts = {t, t + 30 * DaySeconds, t + 60 * DaySeconds})
                     => e.avg_interval_days = 300

\* Charges at t + 60 d, t and t + 30 d, fetched in that order, gave 30.0 days.
C17_Witness ==
    /\ rec_pc = "done"
    /\ Len(recurring) = 1
    /\ recurring[1].count = 3
    /\ recurring[1].avg_interval_days = 300
    /\ transactions[1].time > transactions[2].time
    /\ transactions[3].time > transactions[2].time

(***************************************************************************)
(* SpecRecurringOrder: detect_recurring_payments on longer lists of fewer  *)
(* items, so that several groups of equal and of different counts occur.   *)
(***************************************************************************)
\* The longest list of the runs about the order of the groups.
MaxOrderTxs == 5

\* Two charges of each of two signatures, one charge of a third signature
\* that repeats only when it is taken twice, and an income.
OrderItems ==
    {[description |-> [text |-> d, padded |-> FALSE], amount |-> -999, time |-> t] :
        d \in {"Netflix", "Spotify"},
        t \in {RecurBase, RecurBase + 30 * DaySeconds}}
    \cup {[description |-> [text |-> "Netflix", padded |-> FALSE],
           amount |-> -500, time |-> RecurBase],
          [description |-> [text |-> "Spotify", padded |-> FALSE],
           amount |-> 999, time |-> RecurBase]}

RECURSIVE OrderStatements(_)
OrderStatements(k) ==
    IF k = 0 THEN {<<>>}
    ELSE LET shorter == OrderStatements(k - 1)
         IN  shorter \cup {Append(l, tx) : l \in {x \in shorter : Len(x) = k - 1},
                                          tx \in OrderItems}

RecurringOrderInit ==
    /\ clock = RecurBase + 90 * DaySeconds
    /\ FetchLayerIdle
    /\ transactions \in OrderStatements(MaxOrderTxs)
    /\ recurring = <<>>
    /\ rec_pc = "idle"
    /\ CategorizeIdle
    /\ NormalizeIdle
    /\ ReportIdle
    /\ FetchAllIdle

RecurringOrderNext == RecurringCall

SpecRecurringOrder == RecurringOrderInit /\ [][RecurringOrderNext]_vars

\* The position in the fetched list of the first expense transaction that has
\* the signature of the entry e.
C30_FirstOccurrence(e) ==
    C17_Min(C16_Occurrences(e.description, e.amount))

\* C30: the returned list is sorted by count descending, and of two entries of
\* equal count the one whose signature occurs first among the expense
\* transactions of the fetched list comes first.
C30_CountDescThenFirstOccurrence ==
    rec_pc = "done" =>
        \A i, j \in 1 .. Len(recurring) :
            i < j =>
                /\ recurring[i].count >= recurring[j].count
                /\ recurring[i].count = recurring[j].count =>
                      C30_FirstOccurrence(recurring[i])
                          < C30_FirstOccurrence(recurring[j])

\* A group of count 3 was returned before a group of count 2 whose signature
\* occurs first in the fetched list.
C30_Witness ==
    /\ rec_pc = "done"
    /\ Len(recurring) = 2
    /\ recurring[1].count = 3
    /\ recurring[2].count = 2
    /\ C30_FirstOccurrence(recurring[2]) < C30_FirstOccurrence(recurring[1])

\* Two groups of equal count were returned in the order of their first
\* occurrence, with an income of the second group's description and amount
\* ahead of both.
C30_WitnessTie ==
    /\ rec_pc = "done"
    /\ Len(recurring) = 2
    /\ recurring[1].count = recurring[2].count
    /\ transactions[1].amount > 0

(***************************************************************************)
(* generate_report (src/mcp/weekly_report.py:52-225)                       *)
(* The report is modelled by the values it renders: the totals, the rows   *)
(* of the category tables, the top expenses and the rows of the daily      *)
(* table. Amounts are counted in minor units, percentages as the whole     *)
(* numbers that "{pct:.0f}" prints. A day label ("%a %d") is modelled by    *)
(* the number of the calendar day, which it determines inside a window     *)
(* shorter than 28 days.                                                   *)
(***************************************************************************)
\* The longest transaction list, and the longest window in days.
MaxReportTxs == 3
MaxReportDays == 14

\* The longest list of the runs about the top expenses.
MaxTopTxs == 12

\* line 52: days: int = 14
DefaultReportDays == 14

\* line 167: [:10]
TopN == 10

\* The normalized transactions of a list fetched at time n for a window of d
\* days, without their position: expenses of three categories and two
\* currencies on the last and on the first day of the window, an expense of
\* amount 0 in a third currency and one of a positive amount (the Wise adapter
\* emits both), incomes.
TxShapes(n, d) ==
    LET last_day == n - 100
        first_day == MidnightOf(n - d * DaySeconds) + 100
    IN  {[date |-> last_day, amount |-> 0 - MaxAmount, currency |-> "EUR",
          category |-> "Groceries", source |-> "Wise", is_expense |-> TRUE],
         [date |-> last_day, amount |-> -1, currency |-> "EUR",
          category |-> "Transport", source |-> "Wise", is_expense |-> TRUE],
         [date |-> first_day, amount |-> -1, currency |-> "EUR",
          category |-> "Groceries", source |-> "Wise", is_expense |-> TRUE],
         [date |-> first_day, amount |-> -1, currency |-> "EUR",
          category |-> "Shopping", source |-> "Wise", is_expense |-> TRUE],
         [date |-> last_day, amount |-> 0 - MaxAmount, currency |-> "UAH",
          category |-> "Groceries", source |-> "Monobank", is_expense |-> TRUE],
         [date |-> first_day, amount |-> 0, currency |-> "USD",
          category |-> "Card Payment", source |-> "Wise", is_expense |-> TRUE],
         [date |-> last_day, amount |-> 1, currency |-> "EUR",
          category |-> "Card Payment", source |-> "Wise", is_expense |-> TRUE],
         [date |-> last_day, amount |-> MaxAmount, currency |-> "EUR",
          category |-> "Bank Transfer", source |-> "Wise", is_expense |-> FALSE],
         [date |-> first_day, amount |-> 1, currency |-> "UAH",
          category |-> "Other", source |-> "Monobank", is_expense |-> FALSE]}

\* The transaction of shape sh at position i of a list.
TxAt(sh, i) ==
    [id |-> i, date |-> sh.date, amount |-> sh.amount, currency |-> sh.currency,
     category |-> sh.category, source |-> sh.source,
     is_expense |-> sh.is_expense]

\* The lists of at most k transactions of the shapes S, newest first as
\* fetch_all_transactions returns them (line 49).
RECURSIVE TxLists(_, _)
TxLists(S, k) ==
    IF k = 0 THEN {<<>>}
    ELSE LET shorter == TxLists(S, k - 1)
         IN  shorter \cup
             {Append(l, TxAt(sh, k)) :
                 l \in {x \in shorter : Len(x) = k - 1},
                 sh \in S}

IsSortedByDateDesc(l) ==
    \A i \in 1 .. (Len(l) - 1) : l[i].date >= l[i + 1].date

\* line 67: expenses = [tx for tx in all_txs if tx["is_expense"]]
Expenses_All(txs) == txs

RECURSIVE Expenses(_)
Expenses(txs) ==
    IF txs = <<>> THEN <<>>
    ELSE LET before == Expenses(SubSeq(txs, 1, Len(txs) - 1))
             tx == txs[Len(txs)]
         IN  IF tx.is_expense THEN Append(before, tx) ELSE before

\* line 68: income = [tx for tx in all_txs if not tx["is_expense"]]
RECURSIVE Income(_)
Income(txs) ==
    IF txs = <<>> THEN <<>>
    ELSE LET before == Income(SubSeq(txs, 1, Len(txs) - 1))
             tx == txs[Len(txs)]
         IN  IF ~tx.is_expense THEN Append(before, tx) ELSE before

\* lines 71-77: the keys of a dict filled from txs
CurrenciesOf(txs) == {txs[i].currency : i \in 1 .. Len(txs)}

\* lines 72-73, 76-77: += abs(tx["amount"]) over the transactions of currency c
RECURSIVE TotalOf(_, _)
TotalOf(txs, c) ==
    IF txs = <<>> THEN 0
    ELSE TotalOf(SubSeq(txs, 1, Len(txs) - 1), c)
         + (IF txs[Len(txs)].currency = c THEN Abs(txs[Len(txs)].amount) ELSE 0)

\* lines 71-73, 75-77: expense_by_currency, income_by_currency
ByCurrency(txs) == [c \in CurrenciesOf(txs) |-> TotalOf(txs, c)]

\* lines 80-82: the keys of by_category[c], in the order of their insertion
RECURSIVE CategoriesOf(_, _)
CategoriesOf(txs, c) ==
    IF txs = <<>> THEN <<>>
    ELSE LET before == CategoriesOf(SubSeq(txs, 1, Len(txs) - 1), c)
             tx == txs[Len(txs)]
         IN  IF tx.currency = c
                /\ \A i \in 1 .. Len(before) : before[i] # tx.category
               THEN Append(before, tx.category)
               ELSE before

\* lines 81-82: by_category[c][cat]
RECURSIVE CategoryAmount(_, _, _)
CategoryAmount(txs, c, cat) ==
    IF txs = <<>> THEN 0
    ELSE CategoryAmount(SubSeq(txs, 1, Len(txs) - 1), c, cat)
         + (IF txs[Len(txs)].currency = c /\ txs[Len(txs)].category = cat
              THEN Abs(txs[Len(txs)].amount) ELSE 0)

\* line 147: total = sum(categories.values())
RECURSIVE CategoryTotal_AllCurrencies(_, _)
CategoryTotal_AllCurrencies(txs, c) ==
    IF txs = <<>> THEN 0
    ELSE CategoryTotal_AllCurrencies(SubSeq(txs, 1, Len(txs) - 1), c)
         + Abs(txs[Len(txs)].amount)

CategoryTotal(txs, c) ==
    LET cats == CategoriesOf(txs, c)
        sum[i \in 0 .. Len(cats)] ==
            IF i = 0 THEN 0 ELSE sum[i - 1] + CategoryAmount(txs, c, cats[i])
    IN  sum[Len(cats)]

\* line 160: "{pct:.0f}" for pct = num / den: the nearest whole number, and the
\* even one of two equally near
RoundWhole(num, den) ==
    LET q == num \div den
        r == num % den
    IN  IF 2 * r < den THEN q
        ELSE IF 2 * r > den THEN q + 1
        ELSE IF q % 2 = 0 THEN q ELSE q + 1

\* line 158: pct = (amount / total * 100) if total > 0 else 0
Pct(amount, total) == IF total > 0 THEN RoundWhole(amount * 100, total) ELSE 0

\* line 156: sorted(categories.items(), key=lambda x: x[1], reverse=True)
RECURSIVE InsertByAmountDesc(_, _)
InsertByAmountDesc(l, row) ==
    IF l = <<>> THEN <<row>>
    ELSE IF l[Len(l)].amount >= row.amount THEN Append(l, row)
    ELSE Append(InsertByAmountDesc(SubSeq(l, 1, Len(l) - 1), row), l[Len(l)])

\* lines 142-160: the rows of the category table of currency c from category
\* i on, sorted
RECURSIVE CategoryRowsFrom(_, _, _, _)
CategoryRowsFrom(txs, c, cats, i) ==
    IF i = 0 THEN <<>>
    ELSE LET amount == CategoryAmount(txs, c, cats[i])
         IN  InsertByAmountDesc(
                 CategoryRowsFrom(txs, c, cats, i - 1),
                 [category |-> cats[i], amount |-> amount,
                  pct |-> Pct(amount, CategoryTotal(txs, c))])

CategoryRows(txs, c) ==
    CategoryRowsFrom(txs, c, CategoriesOf(txs, c), Len(CategoriesOf(txs, c)))

\* line 167: sorted(expenses, key=lambda x: abs(x["amount"]), reverse=True)
RECURSIVE InsertByAbsDesc(_, _)
InsertByAbsDesc(l, tx) ==
    IF l = <<>> THEN <<tx>>
    ELSE IF Abs(l[Len(l)].amount) >= Abs(tx.amount) THEN Append(l, tx)
    ELSE Append(InsertByAbsDesc(SubSeq(l, 1, Len(l) - 1), tx), l[Len(l)])

SortedByAbsDesc_Unsorted(l) == l

RECURSIVE SortedByAbsDesc(_)
SortedByAbsDesc(l) ==
    IF l = <<>> THEN <<>>
    ELSE InsertByAbsDesc(SortedByAbsDesc(SubSeq(l, 1, Len(l) - 1)), l[Len(l)])

\* lines 166-167: top_expenses, empty when there is no expense
TopExpenses(expenses) ==
    LET sorted == SortedByAbsDesc(expenses)
    IN  SubSeq(sorted, 1, IF Len(sorted) < TopN THEN Len(sorted) ELSE TopN)

\* The day of the month of the date that is z days after 1970-01-01 (the
\* proleptic Gregorian calendar that datetime uses).
DayOfMonth(z) ==
    LET shifted == z + 719468
        era == shifted \div 146097
        doe == shifted - era * 146097
        yoe == (doe - doe \div 1460 + doe \div 36524 - doe \div 146096) \div 365
        doy == doe - (365 * yoe + yoe \div 4 - yoe \div 100)
        mp == (5 * doy + 2) \div 153
    IN  doy - (153 * mp + 2) \div 5 + 1

\* The day of the week of that date, 0 for Sunday.
DayOfWeek(z) == (z + 4) % 7

\* lines 187, 207: strftime("%a %d"): the abbreviated name of the day of the
\* week and the day of the month
DayKey(t) ==
    [a |-> DayOfWeek(t \div DaySeconds), d |-> DayOfMonth(t \div DaySeconds)]

\* lines 186-188: daily[day][c]
RECURSIVE DailyAmount(_, _, _)
DailyAmount(expenses, day, c) ==
    IF expenses = <<>> THEN 0
    ELSE DailyAmount(SubSeq(expenses, 1, Len(expenses) - 1), day, c)
         + (IF DayKey(expenses[Len(expenses)].date) = day
               /\ expenses[Len(expenses)].currency = c
              THEN Abs(expenses[Len(expenses)].amount) ELSE 0)

\* lines 207-214: a row of the daily table: per currency the amount, or the
\* marker for an amount that is not > 0
DailyRow(expenses, current) ==
    [day |-> DayKey(current),
     cells |-> [c \in CurrenciesOf(expenses) |->
                  LET amt == DailyAmount(expenses, DayKey(current), c)
                  IN  [amount |-> amt, marker |-> ~(amt > 0)]]]

\* lines 205-216: the while loop from current on
RECURSIVE DailyRowsFrom(_, _, _)
DailyRowsFrom(expenses, current, end_date) ==
    IF current <= end_date
      THEN <<DailyRow(expenses, current)>>
           \o DailyRowsFrom(expenses, current + DaySeconds, end_date)
      ELSE <<>>

\* lines 185-217: the rows of the daily table, none when daily is empty
DailyRows(expenses, start, end_date) ==
    IF expenses # <<>> THEN DailyRowsFrom(expenses, start, end_date) ELSE <<>>

\* lines 63-225
GenerateReport(txs, d, n) ==
    LET end_date == n
        start == MidnightOf(end_date - d * DaySeconds)
        expenses == Expenses(txs)
        income == Income(txs)
    IN  [rendered |-> TRUE,
         expense_by_currency |-> ByCurrency(expenses),
         income_by_currency |-> ByCurrency(income),
         category_rows |-> [c \in CurrenciesOf(expenses) |->
                               CategoryRows(expenses, c)],
         category_total |-> [c \in CurrenciesOf(expenses) |->
                               CategoryTotal(expenses, c)],
         top_expenses |-> TopExpenses(expenses),
         daily_rows |-> DailyRows(expenses, start, end_date)]

\* generate_report(all_txs, days) is called and returns.
ReportCall ==
    /\ report_pc = "ready"
    /\ report' = GenerateReport(report_txs, report_days, clock)
    /\ report_pc' = "done"
    /\ UNCHANGED <<report_txs, report_days>>

(***************************************************************************)
(* SpecReport: generate_report on an arbitrary short list and window.      *)
(* SpecTop: generate_report on lists of more than ten expenses.            *)
(***************************************************************************)
ReportInit ==
    /\ clock \in StartClocks
    /\ FetchLayerIdle
    /\ report_days \in 1 .. MaxReportDays
    /\ report_txs \in {l \in TxLists(TxShapes(clock, report_days), MaxReportTxs) :
                          IsSortedByDateDesc(l)}
    /\ report = [rendered |-> FALSE]
    /\ report_pc = "ready"
    /\ CategorizeIdle
    /\ NormalizeIdle
    /\ RecurringIdle
    /\ FetchAllIdle

ReportGenerate == ReportCall /\ UNCHANGED outside_report

ReportNext == ReportGenerate

SpecReport == ReportInit /\ [][ReportNext]_vars

(***************************************************************************)
(* SpecDaily: generate_report on a window of a week and on a window longer *)
(* than a month that holds 1 February and 1 March of a common year.        *)
(***************************************************************************)
\* The longest list of these runs, and the long window in days.
MaxDailyTxs == 3
LongWindowDays == 35

\* Noon of 2001-03-05, a Monday.
DailyNow == 11386 * DaySeconds + 43200

\* Expenses at noon of 2001-02-01, 2001-03-01 and 2001-03-02, and of the day of
\* the call, in two currencies.
DailyShapes ==
    {[date |-> DailyNow - back * DaySeconds, amount |-> a, currency |-> c,
      category |-> "Groceries", source |-> "Wise", is_expense |-> TRUE] :
        back \in {0, 3, 4, 32}, a \in {-1}, c \in {"EUR", "USD"}}

DailyInit ==
    /\ clock = DailyNow
    /\ FetchLayerIdle
    /\ report_days \in {7, LongWindowDays}
    /\ report_txs \in {l \in TxLists(DailyShapes, MaxDailyTxs) :
                          /\ IsSortedByDateDesc(l)
                          /\ \A i \in 1 .. Len(l) :
                               l[i].date >= MidnightOf(clock - report_days * DaySeconds)}
    /\ report = [rendered |-> FALSE]
    /\ report_pc = "ready"
    /\ CategorizeIdle
    /\ NormalizeIdle
    /\ RecurringIdle
    /\ FetchAllIdle

DailyNext == ReportGenerate

SpecDaily == DailyInit /\ [][DailyNext]_vars

\* The expenses of report_txs of the calendar date z (in days since
\* 1970-01-01) in the currency c, summed.
C33_SumOfDate(z, c) ==
    LET sum[i \in 0 .. Len(report_txs)] ==
            IF i = 0 THEN 0
            ELSE sum[i - 1]
                 + (IF /\ report_txs[i].is_expense
                       /\ report_txs[i].date \div DaySeconds = z
                       /\ report_txs[i].currency = c
                      THEN Abs(report_txs[i].amount) ELSE 0)
    IN  sum[Len(report_txs)]

\* C33: the i-th row of the daily table is the row of the i-th date of the
\* window, and its amount for a currency is the sum of the expenses of exactly
\* that date in that currency.
C33_RowIsSumOfItsDate ==
    report_pc = "done" =>
        \A i \in 1 .. Len(report.daily_rows) :
            \A c \in DOMAIN report.daily_rows[i].cells :
                report.daily_rows[i].cells[c].amount =
                    C33_SumOfDate(
                        MidnightOf(clock - report_days * DaySeconds) \div DaySeconds
                            + (i - 1), c)

\* The state that refutes it: with one expense on 1 February and one on
\* 1 March, the row of 1 February shows the sum of both.
C33_TwoDatesInOneRow ==
    /\ report_pc = "done"
    /\ report_days = LongWindowDays
    /\ Len(report_txs) = 2
    /\ report_txs[1].date \div DaySeconds = 11382
    /\ report_txs[2].date \div DaySeconds = 11354
    /\ report_txs[1].currency = "EUR"
    /\ report_txs[2].currency = "EUR"
    /\ report.daily_rows[4].day = [a |-> 4, d |-> 1]
    /\ report.daily_rows[4].cells["EUR"].amount = 2
    /\ report.daily_rows[32].day = [a |-> 4, d |-> 1]
    /\ report.daily_rows[32].cells["EUR"].amount = 2

\* Expenses of two sizes in one currency on one day, and an income.
TopShapes(n) ==
    {[date |-> n - 100, amount |-> a, currency |-> "EUR",
      category |-> "Groceries", source |-> "Wise", is_expense |-> TRUE] :
        a \in {-1, 0 - MaxAmount}}
    \cup {[date |-> n - 100, amount |-> 1, currency |-> "EUR",
           category |-> "Bank Transfer", source |-> "Wise",
           is_expense |-> FALSE]}

\* The lists of at most k such transactions in which only the first may be an
\* income.
RECURSIVE TopLists(_, _)
TopLists(n, k) ==
    IF k = 0 THEN {<<>>}
    ELSE LET shorter == TopLists(n, k - 1)
         IN  shorter \cup
             {Append(l, TxAt(sh, k)) :
                 l \in {x \in shorter : Len(x) = k - 1},
                 sh \in {x \in TopShapes(n) : k = 1 \/ x.is_expense}}

TopInit ==
    /\ clock \in StartClocks
    /\ FetchLayerIdle
    /\ report_days = DefaultReportDays
    /\ report_txs \in TopLists(clock, MaxTopTxs)
    /\ report = [rendered |-> FALSE]
    /\ report_pc = "ready"
    /\ CategorizeIdle
    /\ NormalizeIdle
    /\ RecurringIdle
    /\ FetchAllIdle

TopGenerate == ReportCall /\ UNCHANGED outside_report

TopNext == TopGenerate

SpecTop == TopInit /\ [][TopNext]_vars

(***************************************************************************)
(* Claims about generate_report, checked under SpecReport and SpecTop.     *)
(***************************************************************************)
\* The sum of |amount| over the transactions of the list with currency c and
\* is_expense = flag.
C13_SumAbs(c, flag) ==
    LET sum[i \in 0 .. Len(report_txs)] ==
            IF i = 0 THEN 0
            ELSE sum[i - 1]
                 + (IF report_txs[i].currency = c /\ report_txs[i].is_expense = flag
                      THEN (IF report_txs[i].amount < 0
                              THEN 0 - report_txs[i].amount
                              ELSE report_txs[i].amount)
                      ELSE 0)
    IN  sum[Len(report_txs)]

C13_Has(c, flag) ==
    \E i \in 1 .. Len(report_txs) :
        report_txs[i].currency = c /\ report_txs[i].is_expense = flag

\* C13: for every currency c the expense total is the sum of |amount| over the
\* transactions of c with is_expense true, the income total the sum over those
\* with is_expense false, and both are >= 0; a currency has a total exactly when
\* the list has such a transaction.
C13_TotalsPerCurrencyAndKind ==
    report_pc = "done" =>
        \A c \in {"EUR", "UAH", "USD"} :
            /\ c \in DOMAIN report.expense_by_currency <=> C13_Has(c, TRUE)
            /\ c \in DOMAIN report.income_by_currency <=> C13_Has(c, FALSE)
            /\ c \in DOMAIN report.expense_by_currency =>
                 /\ report.expense_by_currency[c] = C13_SumAbs(c, TRUE)
                 /\ report.expense_by_currency[c] >= 0
            /\ c \in DOMAIN report.income_by_currency =>
                 /\ report.income_by_currency[c] = C13_SumAbs(c, FALSE)
                 /\ report.income_by_currency[c] >= 0

\* A list with expenses in two currencies and an income was reported.
C13_Witness ==
    /\ report_pc = "done"
    /\ DOMAIN report.expense_by_currency = {"EUR", "UAH"}
    /\ report.expense_by_currency["EUR"] = MaxAmount
    /\ report.expense_by_currency["UAH"] = MaxAmount
    /\ DOMAIN report.income_by_currency = {"EUR"}
    /\ report.income_by_currency["EUR"] = MaxAmount

C15_Abs(x) == IF x < 0 THEN 0 - x ELSE x

C15_ExpenseIds == {i \in 1 .. Len(report_txs) : report_txs[i].is_expense}

C15_ListedIds == {report.top_expenses[i].id : i \in 1 .. Len(report.top_expenses)}

\* C15: with M expenses the top list has min(M, 10) entries, all of them
\* different expenses of the input; no expense left out has a larger |amount|
\* than a listed one; the list goes from larger to smaller |amount| and
\* expenses of equal |amount| are in their input order.
C15_TopTenStable ==
    report_pc = "done" =>
        LET top == report.top_expenses
            M == Cardinality(C15_ExpenseIds)
        IN  /\ Len(top) = IF M < 10 THEN M ELSE 10
            /\ C15_ListedIds \subseteq C15_ExpenseIds
            /\ Cardinality(C15_ListedIds) = Len(top)
            /\ \A i \in 1 .. Len(top) : top[i] = report_txs[top[i].id]
            /\ \A i \in 1 .. Len(top) : \A k \in C15_ExpenseIds \ C15_ListedIds :
                 C15_Abs(top[i].amount) >= C15_Abs(report_txs[k].amount)
            /\ \A i \in 1 .. Len(top), j \in 1 .. Len(top) :
                 i < j =>
                    /\ C15_Abs(top[i].amount) >= C15_Abs(top[j].amount)
                    /\ C15_Abs(top[i].amount) = C15_Abs(top[j].amount)
                         => top[i].id < top[j].id

\* Eleven expenses, small and large in turn after an income: ten are listed,
\* and a small one is left out.
C15_Witness ==
    /\ report_pc = "done"
    /\ Cardinality(C15_ExpenseIds) = 11
    /\ Len(report.top_expenses) = 10
    /\ ~report_txs[1].is_expense
    /\ report_txs[2].amount = -1
    /\ report_txs[3].amount = 0 - MaxAmount
    /\ report_txs[Len(report_txs)].amount = -1
    /\ report.top_expenses[1].id = 3
    /\ \E k \in C15_ExpenseIds \ C15_ListedIds : report_txs[k].amount = -1

\* C18: the daily table of generate_report(all_txs, days = N) has exactly N
\* rows.
C18_DailyRowsEqualDays ==
    report_pc = "done" => Len(report.daily_rows) = report_days

C19_Rows(c) == report.category_rows[c]

C19_Total(c) ==
    LET sum[i \in 0 .. Len(C19_Rows(c))] ==
            IF i = 0 THEN 0 ELSE sum[i - 1] + C19_Rows(c)[i].amount
    IN  sum[Len(C19_Rows(c))]

C19_PctSum(c) ==
    LET sum[i \in 0 .. Len(C19_Rows(c))] ==
            IF i = 0 THEN 0 ELSE sum[i - 1] + C19_Rows(c)[i].pct
    IN  sum[Len(C19_Rows(c))]

C19_Dist(x, y) == IF x < y THEN y - x ELSE x - y

\* C19: in the category table of a currency whose expense total is > 0 every
\* percentage is amount / total * 100 rounded to a whole number, and the
\* percentages sum to 100 within half a point per category; when the total is 0
\* every percentage is 0.
C19_PercentagesSumTo100 ==
    report_pc = "done" =>
        \A c \in DOMAIN report.category_rows :
            /\ C19_Total(c) > 0 =>
                 /\ \A i \in 1 .. Len(C19_Rows(c)) :
                      2 * C19_Dist(C19_Rows(c)[i].pct * C19_Total(c),
                                   100 * C19_Rows(c)[i].amount) <= C19_Total(c)
                 /\ 2 * C19_Dist(C19_PctSum(c), 100) <= Len(C19_Rows(c))
            /\ C19_Total(c) = 0 =>
                 \A i \in 1 .. Len(C19_Rows(c)) : C19_Rows(c)[i].pct = 0

\* One currency with a category of amount 0 (total 0), another with two
\* categories of one third and two thirds.
C19_Witness ==
    /\ report_pc = "done"
    /\ DOMAIN report.category_rows = {"EUR", "USD"}
    /\ Len(C19_Rows("USD")) = 1
    /\ C19_Total("USD") = 0
    /\ Len(C19_Rows("EUR")) = 2
    /\ C19_Rows("EUR")[2].pct * 3 < 100
    /\ C19_Rows("EUR")[2].amount * 3 = C19_Total("EUR")

(***************************************************************************)
(* fetch_all_transactions and generate_spending_report                     *)
(* (src/mcp/weekly_report.py:22-49, 228-242), called by the tool           *)
(* generate_report (src/mcp/mcp_server.py:177-195) under                   *)
(* rate_limit_retry() with its default arguments.                          *)
(***************************************************************************)
\* The longest list one source returns.
MaxSourceTxs == 2

\* What MonobankClient().get_all_transactions(days) returns (sorted, newest
\* first: monobank/client.py:265), for a fetch at time n over d days.
MonobankLists(n, d) ==
    {l \in TxLists({sh \in TxShapes(n, d) : sh.source = "Monobank"}, MaxSourceTxs) :
        IsSortedByDateDesc(l)}

\* What WiseClient().get_all_transactions(days) returns (sorted, newest first:
\* wise/client.py:288); its transactions are numbered after Monobank's.
WiseLists(n, d) ==
    {[i \in 1 .. Len(l) |-> [l[i] EXCEPT !.id = @ + MaxSourceTxs]] :
        l \in {x \in TxLists({sh \in TxShapes(n, d) : sh.source = "Wise"},
                             MaxSourceTxs) : IsSortedByDateDesc(x)}}

\* monobank/client.py:53-54, wise/client.py:32-33: ValueError("... API token
\* is required (..._API_TOKEN env var)") of the constructor when the token is
\* not set; the text holds none of "429", "Too Many Requests" and "400"
ConfigError == [s429 |-> FALSE, sTMR |-> FALSE, s400 |-> FALSE, config |-> TRUE]

IsConfigError(o) == o.kind = "err" /\ "config" \in DOMAIN o.err

\* lines 32-37, 40-46: the client is made and its fetch returns a list, or
\* the fetch raises, or the constructor raises for want of the token
SourceOutcomes(lists) ==
    {Returned(l) : l \in lists} \cup {Raised(e) : e \in ErrorTexts}
        \cup {Raised(ConfigError)}

\* lines 35, 44: all_txs.extend(...) inside try; lines 36-37, 45-46: an
\* exception is printed and dropped
Extended_ClearedByFailure(txs, o) == IF o.kind = "ok" THEN txs \o o.val ELSE <<>>
Extended(txs, o) == IF o.kind = "ok" THEN txs \o o.val ELSE txs

\* line 49: return sorted(all_txs, key=lambda x: x["date"], reverse=True)
FetchAllSorted_Unsorted(txs) == txs
FetchAllSorted(txs) == SortedByDateDesc(txs)

\* lines 29-31: fetch_all_transactions starts
FetchAllEnter ==
    /\ fa_pc = "idle"
    /\ fa_all_txs' = <<>>
    /\ fa_pc' = "monobank"
    /\ UNCHANGED <<monobank_result, wise_result, fa_result>>

\* lines 32-37: the Monobank fetch ends with outcome o
FetchMonobank(o) ==
    /\ fa_pc = "monobank"
    /\ monobank_result' = o
    /\ fa_all_txs' = Extended(fa_all_txs, o)
    /\ fa_pc' = "wise"
    /\ UNCHANGED <<wise_result, fa_result>>

\* lines 40-49: the Wise fetch ends with outcome o, and the list is sorted and
\* returned
FetchWise(o) ==
    /\ fa_pc = "wise"
    /\ wise_result' = o
    /\ fa_all_txs' = Extended(fa_all_txs, o)
    /\ fa_result' = FetchAllSorted(Extended(fa_all_txs, o))
    /\ fa_pc' = "returned"
    /\ UNCHANGED monobank_result

(***************************************************************************)
(* SpecSpending: the tool generate_report(days) against arbitrary sources. *)
(***************************************************************************)
SpendingInit ==
    /\ clock \in StartClocks
    /\ retries = DefaultRetries
    /\ initial_delay = DefaultInitialDelay
    /\ delay = 0
    /\ attempt = 0
    /\ wrapper_pc = "ready"
    /\ wrapper_result = NoResult
    /\ outcomes = <<>>
    /\ waits = <<>>
    /\ days = 0
    /\ GtIdle
    /\ wise_days = 0
    /\ WiseIdle
    /\ StatsIdle
    /\ AuthIdle
    /\ TransfersIdle
    /\ TasksIdle
    /\ CallsIdle
    /\ AccountsIdle
    /\ CategorizeIdle
    /\ NormalizeIdle
    /\ RecurringIdle
    /\ report_txs = <<>>
    /\ report_days \in {7, DefaultReportDays}
    /\ report = [rendered |-> FALSE]
    /\ report_pc = "idle"
    /\ FetchAllIdle

\* The tool is called: the wrapper starts.
SpendingEnter ==
    /\ WrapperEnter
    /\ UNCHANGED <<report_vars, fetch_vars, outside_spending>>

\* mcp_server.py:62, 194-195, weekly_report.py:238: the wrapper invokes the
\* tool's body, which calls generate_spending_report, which calls
\* fetch_all_transactions
SpendingInvoke ==
    /\ wrapper_pc = "loop"
    /\ FetchAllEnter
    /\ wrapper_pc' = "func"
    /\ UNCHANGED <<clock, retries, initial_delay, delay, attempt,
                   wrapper_result, outcomes, waits, report_vars,
                   outside_spending>>

SpendingFetchMonobank ==
    /\ \E o \in SourceOutcomes(MonobankLists(clock, report_days)) : FetchMonobank(o)
    /\ UNCHANGED <<clock, wrapper_vars, report_vars, outside_spending>>

SpendingFetchWise ==
    /\ \E o \in SourceOutcomes(WiseLists(clock, report_days)) : FetchWise(o)
    /\ UNCHANGED <<clock, wrapper_vars, report_vars, outside_spending>>

\* weekly_report.py:239-242, mcp_server.py:62, 195: generate_report renders the
\* fetched list, and the report goes back through generate_spending_report and
\* the tool's body to the wrapper
SpendingFinish ==
    /\ wrapper_pc = "func"
    /\ fa_pc = "returned"
    /\ report_txs' = fa_result
    /\ report' = GenerateReport(fa_result, report_days, clock)
    /\ report_pc' = "done"
    /\ WrapperHandle(Returned(GenerateReport(fa_result, report_days, clock)))
    /\ fa_pc' = "done"
    /\ UNCHANGED <<report_days, monobank_result, wise_result, fa_all_txs,
                   fa_result, outside_spending>>

SpendingNext ==
    \/ SpendingEnter
    \/ SpendingInvoke
    \/ SpendingFetchMonobank
    \/ SpendingFetchWise
    \/ SpendingFinish

SpecSpending == SpendingInit /\ [][SpendingNext]_vars

(***************************************************************************)
(* Claims about fetch_all_transactions and the report tool, checked under  *)
(* SpecSpending.                                                           *)
(***************************************************************************)
\* C11: when the Monobank fetch and the Wise fetch both raised, the call of the
\* tool ends in an error the caller sees, and no report is returned.
C11_AllSourcesFailedIsAnError ==
    (/\ fa_pc = "done"
     /\ monobank_result.kind = "err"
     /\ wise_result.kind = "err")
        => (wrapper_result.kind = "raise" /\ report_pc # "done")

\* What each source returned, an empty list if it raised.
C12_Monobank == IF monobank_result.kind = "ok" THEN monobank_result.val ELSE <<>>

C12_Wise == IF wise_result.kind = "ok" THEN wise_result.val ELSE <<>>

\* The list obtained when the data of Wise is appended before Monobank's.
C12_WiseFirst == SortedByDateDesc(C12_Wise \o C12_Monobank)

C12_Descending ==
    \A i \in 1 .. (Len(fa_result) - 1) : fa_result[i].date >= fa_result[i + 1].date

C12_CrossTie ==
    \E i \in 1 .. Len(C12_Monobank), j \in 1 .. Len(C12_Wise) :
        C12_Monobank[i].date = C12_Wise[j].date

C25_MissingCredentialIsFatal ==
    (/\ fa_pc = "done"
     /\ (IsConfigError(monobank_result) \/ IsConfigError(wise_result)))
        => (/\ wrapper_result.kind = "raise"
            /\ report_pc # "done")

\* The state that refutes it: Monobank's constructor raised for want of the
\* token, and the tool returned a report of the Wise transactions.
C25_ReportWithoutCredential ==
    /\ fa_pc = "done"
    /\ IsConfigError(monobank_result)
    /\ wise_result.kind = "ok"
    /\ wrapper_result.kind = "return"
    /\ report_pc = "done"

(***************************************************************************)
(* Claims about responses of the wrong shape, checked under SpecWise.      *)
(***************************************************************************)
\* C21: an activities page of the wrong shape counts as a page of zero
\* records: get_card_transactions does not raise on it.
C21_WrongShapeIsEmptyUnit == wise_pc # "raised_attribute"

\* The state that refutes it: the first page gave a transaction, the second
\* page had the wrong shape, and the call raised without returning the first.
C21_RaisedAfterGoodPage ==
    /\ wise_pc = "raised_attribute"
    /\ page_requests = 2
    /\ processed # <<>>

(***************************************************************************)
(* MonobankClient.get_all_transactions (src/mcp/monobank/client.py:180-265) *)
(* inside fetch_all_transactions (src/mcp/weekly_report.py:22-49).         *)
(* The call is one sequence of steps: each GET and each time.sleep() of a  *)
(* rate-limit wait is a step of its own, and nothing else runs meanwhile,  *)
(* because the code is one thread of blocking calls.                       *)
(***************************************************************************)
\* monobank/client.py:10-12
RATE_LIMIT_WAIT_SECONDS == 61
INTER_ACCOUNT_DELAY == 5
MAX_RETRIES == 3

\* The most accounts client-info returns.
MaxAccounts == 2

\* The accounts of client-info, as far as the code reads them (lines 199-204).
AccountShapes == [type : {"black", "fop"}, balance : {0, 100}]

AccountLists == UNION {[1 .. len -> AccountShapes] : len \in 0 .. MaxAccounts}

\* lines 192-196: what GET /personal/client-info can give: an HTTP error
\* (raise_for_status raises) or the accounts
ClientInfoResponses ==
    {[kind |-> "error", accounts |-> <<>>]}
    \cup {[kind |-> "info", accounts |-> l] : l \in AccountLists}

\* line 204: if acc_type == "fop" and acc.get("balance", 0) == 0: continue
IsSkipped_Never(acc) == FALSE
IsSkipped(acc) == acc.type = "fop" /\ acc.balance = 0

\* line 187: start_date
MonoStartDate(n, d) == MidnightOf(n - d * DaySeconds)

\* lines 215-217, 249-263: what the GET of one statement can give: a list of
\* items (here one item, inside the window or before it), a JSON body that is
\* not a list, the status 429, another error status, or an exception of the
\* transport
StatementResponses(n, d) ==
    {[kind |-> "list", items |-> <<[time |-> t, amount |-> -1]>>] :
        t \in {n - 100, MonoStartDate(n, d) - 1}}
    \cup {[kind |-> k, items |-> <<>>] :
            k \in {"not_list", "http_429", "http_error", "exception"}}

\* lines 224-244: the for loop over the items of a statement from position i
\* on, appending to all_txs
RECURSIVE AppendStatement(_, _, _, _, _, _)
AppendStatement(all, items, i, acc, n, sd) ==
    IF i > Len(items) THEN all
    ELSE LET tx == items[i]
         IN  IF tx.time < sd \/ tx.time > n
               THEN AppendStatement(all, items, i + 1, acc, n, sd)
               ELSE AppendStatement(
                        Append(all, [id |-> idx, date |-> tx.time,
                                     amount |-> tx.amount, currency |-> "UAH",
                                     category |-> "Other", source |-> "Monobank",
                                     account_type |-> acc.type,
                                     is_expense |-> tx.amount < 0]),
                        items, i + 1, acc, n, sd)

\* line 252: if attempt < MAX_RETRIES - 1
RetriesLeft_None(a) == FALSE
RetriesLeft(a) == a < MAX_RETRIES - 1

\* line 253: wait_time
WaitTime_Fixed(a) == RATE_LIMIT_WAIT_SECONDS
WaitTime(a) == RATE_LIMIT_WAIT_SECONDS * (a + 1)

\* weekly_report.py:29-33, monobank/client.py:185-191: fetch_all_transactions
\* starts, makes the client and calls get_all_transactions, which reads the
\* clock
MonoEnter ==
    /\ FetchAllEnter
    /\ mono_pc = "idle"
    /\ mono_now' = clock
    /\ all_transactions' = <<>>
    /\ mono_pc' = "client_info"
    /\ UNCHANGED <<clock, accounts, idx, mono_attempt, statement_requests>>

\* lines 192-198, weekly_report.py:36-37: the GET of client-info answers with
\* resp; an error status raises out of get_all_transactions, and
\* fetch_all_transactions prints it and goes on to Wise
MonoClientInfo(resp) ==
    /\ mono_pc = "client_info"
    /\ IF resp.kind = "error"
         THEN /\ mono_pc' = "raised"
              /\ FetchMonobank(Raised(NoError))
              /\ UNCHANGED <<accounts, idx>>
         ELSE /\ accounts' = resp.accounts
              /\ idx' = 1
              /\ mono_pc' = "account"
              /\ UNCHANGED fetch_vars
    /\ UNCHANGED <<clock, mono_now, mono_attempt, all_transactions,
                   statement_requests>>

\* lines 198-209, 265, weekly_report.py:34-35: the head of the for loop over
\* the accounts: the sorted list is returned after the last account, a skipped
\* account is passed over, and every account but the first waits
\* INTER_ACCOUNT_DELAY before its first request
MonoAccount ==
    /\ mono_pc = "account"
    /\ IF idx > Len(accounts)
         THEN /\ mono_pc' = "returned"
              /\ FetchMonobank(Returned(SortedByDateDesc(all_transactions)))
              /\ UNCHANGED <<clock, idx, mono_attempt>>
         ELSE IF IsSkipped(accounts[idx])
         THEN /\ idx' = idx + 1
              /\ UNCHANGED <<clock, mono_pc, mono_attempt, fetch_vars>>
         ELSE /\ clock' = IF idx > 1 THEN clock + INTER_ACCOUNT_DELAY ELSE clock
              /\ mono_attempt' = 0
              /\ mono_pc' = "request"
              /\ UNCHANGED <<idx, fetch_vars>>
    /\ UNCHANGED <<mono_now, accounts, all_transactions, statement_requests>>

\* lines 215-263: one GET of the statement of accounts[idx], answering with
\* resp. Every outcome but a 429 with retries left ends the retry loop, and
\* the for loop goes on to the next account.
MonoStatement(resp) ==
    /\ mono_pc = "request"
    /\ statement_requests' =
         Append(statement_requests,
                [idx |-> idx, attempt |-> mono_attempt, kind |-> resp.kind,
                 items |-> resp.items, at |-> clock])
    /\ all_transactions' =
         IF resp.kind = "list"
           THEN AppendStatement(all_transactions, resp.items, 1, accounts[idx],
                                mono_now,
                                MonoStartDate(mono_now, report_days))
           ELSE all_transactions
    /\ IF resp.kind = "http_429" /\ RetriesLeft(mono_attempt)
         THEN /\ mono_pc' = "waiting"
              /\ UNCHANGED idx
         ELSE /\ mono_pc' = "account"
              /\ idx' = idx + 1
    /\ UNCHANGED <<clock, mono_now, accounts, mono_attempt, fetch_vars>>

\* lines 253-256: time.sleep(wait_time) returns, and the retry loop continues
MonoWake ==
    /\ mono_pc = "waiting"
    /\ clock' = clock + WaitTime(mono_attempt)
    /\ mono_attempt' = mono_attempt + 1
    /\ mono_pc' = "request"
    /\ UNCHANGED <<mono_now, accounts, idx, all_transactions,
                   statement_requests, fetch_vars>>

\* What WiseClient().get_all_transactions(days) does in these runs: it returns
\* one transaction or raises.
AccountsWiseOutcomes(n, d) ==
    {Returned(<<TxAt(sh, 0)>>) :
        sh \in {x \in TxShapes(n, d) :
                   x.source = "Wise" /\ x.category = "Transport"}}
    \cup {Raised(NoError)}

(***************************************************************************)
(* SpecAccounts: fetch_all_transactions(days) against arbitrary sources,   *)
(* the Monobank fetch step by step.                                        *)
(***************************************************************************)
outside_accounts == <<wrapper_vars, gt_vars, wise_vars, cat_vars, norm_vars,
                      rec_vars, report_vars,
    call_vars,
    task_vars,
    transfers_vars,
    auth_vars,
    stats_vars>>

AccountsInit ==
    /\ clock = RecurBase + 90 * DaySeconds
    /\ FetchLayerIdle
    /\ CategorizeIdle
    /\ NormalizeIdle
    /\ RecurringIdle
    /\ report_txs = <<>>
    /\ report_days = DefaultReportDays
    /\ report = [rendered |-> FALSE]
    /\ report_pc = "idle"
    /\ FetchAllIdle

AccountsEnter == MonoEnter /\ UNCHANGED outside_accounts

AccountsClientInfo ==
    /\ \E resp \in ClientInfoResponses : MonoClientInfo(resp)
    /\ UNCHANGED outside_accounts

AccountsAccount == MonoAccount /\ UNCHANGED outside_accounts

AccountsStatement ==
    /\ \E resp \in StatementResponses(mono_now, report_days) : MonoStatement(resp)
    /\ UNCHANGED outside_accounts

AccountsWake == MonoWake /\ UNCHANGED outside_accounts

\* weekly_report.py:40-49: the Wise fetch, which starts when the Monobank fetch
\* has returned or raised
AccountsFetchWise ==
    /\ \E o \in AccountsWiseOutcomes(clock, report_days) : FetchWise(o)
    /\ UNCHANGED <<clock, mono_vars, outside_accounts>>

AccountsNext ==
    \/ AccountsEnter
    \/ AccountsClientInfo
    \/ AccountsAccount
    \/ AccountsStatement
    \/ AccountsWake
    \/ AccountsFetchWise

SpecAccounts == AccountsInit /\ [][AccountsNext]_vars

(***************************************************************************)
(* Claims about get_all_transactions and fetch_all_transactions, checked   *)
(* under SpecAccounts.                                                     *)
(***************************************************************************)
\* The accounts get_all_transactions asked a statement of.
RequestedAccounts ==
    {statement_requests[k].idx : k \in 1 .. Len(statement_requests)}

\* The statement requests that ended the fetch of their account in failure:
\* a 429 on the last attempt, another error status, a body that is not a list,
\* an exception of the transport.
FailedRequests ==
    {k \in 1 .. Len(statement_requests) :
        \/ statement_requests[k].kind \in {"http_error", "not_list", "exception"}
        \/ /\ statement_requests[k].kind = "http_429"
           /\ statement_requests[k].attempt = MAX_RETRIES - 1}

\* The accounts whose statement answered with an item inside the window.
AnsweredAccounts ==
    {statement_requests[k].idx : k \in
        {j \in 1 .. Len(statement_requests) :
            /\ statement_requests[j].kind = "list"
            /\ \E i \in 1 .. Len(statement_requests[j].items) :
                 LET t == statement_requests[j].items[i].time
                 IN  /\ t >= MidnightOf(mono_now - report_days * DaySeconds)
                     /\ t <= mono_now}}

\* C29: no statement is requested for an account of type "fop" with balance
\* 0, and once the loop over the accounts has ended at least one statement was
\* requested for every other account of client-info.
C29_SkipsOnlyEmptyFop ==
    /\ \A i \in RequestedAccounts :
         ~(accounts[i].type = "fop" /\ accounts[i].balance = 0)
    /\ mono_pc = "returned" =>
         \A i \in 1 .. Len(accounts) :
            ~(accounts[i].type = "fop" /\ accounts[i].balance = 0)
                => i \in RequestedAccounts

\* An empty fop account came first and was passed over, the account after it
\* was asked for its statement.
C29_Witness ==
    /\ mono_pc = "returned"
    /\ Len(accounts) = MaxAccounts
    /\ accounts[1] = [type |-> "fop", balance |-> 0]
    /\ RequestedAccounts = {2}

\* C28: a failed statement fetch of one account does not end
\* get_all_transactions: when the call is over it has returned, every later
\* account that is not skipped was asked for its statement, and the returned
\* list holds the transactions of the accounts that answered. A source that
\* raised leaves the other source's transactions in the list
\* fetch_all_transactions returns.
C28_SiblingIsolation ==
    /\ (mono_pc \in {"returned", "raised"} /\ FailedRequests # {}) =>
         /\ mono_pc = "returned"
         /\ monobank_result.kind = "ok"
         /\ {monobank_result.val[i].id : i \in 1 .. Len(monobank_result.val)}
               = AnsweredAccounts
         /\ \A k \in FailedRequests :
              \A j \in (statement_requests[k].idx + 1) .. Len(accounts) :
                 ~(accounts[j].type = "fop" /\ accounts[j].balance = 0)
                     => j \in RequestedAccounts
    /\ fa_pc = "returned" =>
         /\ (monobank_result.kind = "err" /\ wise_result.kind = "ok")
               => fa_result = wise_result.val
         /\ (monobank_result.kind = "ok" /\ wise_result.kind = "err")
               => fa_result = monobank_result.val

\* The first account's statement failed, the second account's statement was
\* fetched and its transaction returned, Wise raised, and the list returned
\* holds that transaction.
C28_Witness ==
    /\ fa_pc = "returned"
    /\ Len(statement_requests) = 2
    /\ 1 \in FailedRequests
    /\ statement_requests[2].idx = 2
    /\ statement_requests[2].kind = "list"
    /\ wise_result.kind = "err"
    /\ Len(fa_result) = 1
    /\ fa_result[1].id = 2

\* C27: when a statement request failed for another reason than a 429 (an
\* error status other than 429, an exception of the transport),
\* get_all_transactions does not return a list: the failure reaches its caller.
C27_OtherFailureSurfaces ==
    (\E k \in 1 .. Len(statement_requests) :
        statement_requests[k].kind \in {"http_error", "exception"})
        => mono_pc # "returned"

\* The state that refutes it: the only account's statement request ended in an
\* exception of the transport, and get_all_transactions returned an empty list.
C27_EmptyListAfterTransportFailure ==
    /\ mono_pc = "returned"
    /\ Len(statement_requests) = 1
    /\ statement_requests[1].kind = "exception"
    /\ monobank_result = Returned(<<>>)

\* C23: while the Monobank fetch waits after a 429, the Wise fetch can take
\* a step.
C23_WaitDoesNotBlockWise ==
    mono_pc = "waiting" => ENABLED AccountsFetchWise

\* The state that refutes it: the Monobank fetch is in its rate-limit wait and
\* the Wise fetch has not started.
C23_WiseHeldBackByWait ==
    /\ mono_pc = "waiting"
    /\ fa_pc = "monobank"
    /\ wise_result = [kind |-> "none"]

(***************************************************************************)
(* get_mcc_category (src/mcp/monobank/client.py:18-44) and repeated calls  *)
(* of the two categorizers. A label is the text the function returns.      *)
(***************************************************************************)
\* The most calls of a run.
MaxCalls == 3

\* lines 18-39
MCC_CATEGORIES ==
    "4111" :> "Transportation" @@ "4112" :> "Railways"
    @@ "4121" :> "Taxi & Rideshare" @@ "4131" :> "Bus Lines"
    @@ "4784" :> "Tolls & Fees" @@ "4789" :> "Transportation Services"
    @@ "4829" :> "Money Transfer" @@ "5411" :> "Groceries"
    @@ "5412" :> "Convenience Stores" @@ "5422" :> "Meat & Seafood"
    @@ "5441" :> "Candy & Confectionery" @@ "5451" :> "Dairy Stores"
    @@ "5462" :> "Bakeries" @@ "5499" :> "Food Stores"
    @@ "5541" :> "Gas Stations" @@ "5542" :> "Fuel"
    @@ "5651" :> "Clothing" @@ "5691" :> "Clothing Stores"
    @@ "5812" :> "Restaurants" @@ "5813" :> "Bars & Nightclubs"
    @@ "5814" :> "Fast Food" @@ "5815" :> "Digital Goods"
    @@ "5816" :> "Digital Games" @@ "5817" :> "Digital Services"
    @@ "5818" :> "Digital Purchases" @@ "5912" :> "Pharmacy"
    @@ "5921" :> "Alcohol" @@ "5941" :> "Sporting Goods"
    @@ "5942" :> "Bookstores" @@ "5943" :> "Office Supplies"
    @@ "5944" :> "Jewelry" @@ "5945" :> "Toys & Games"
    @@ "5977" :> "Cosmetics" @@ "5999" :> "Retail"
    @@ "6010" :> "ATM Cash" @@ "6011" :> "Cash Withdrawal"
    @@ "6012" :> "Financial Services" @@ "6051" :> "Currency Exchange"
    @@ "6211" :> "Investments" @@ "6300" :> "Insurance"
    @@ "7011" :> "Hotels" @@ "7230" :> "Beauty Salons"
    @@ "7299" :> "Other Services" @@ "7372" :> "Software"
    @@ "7375" :> "Information Services" @@ "7379" :> "Computer Services"
    @@ "7392" :> "Consulting" @@ "7399" :> "Business Services"
    @@ "7512" :> "Car Rental" @@ "7523" :> "Parking"
    @@ "7832" :> "Cinema" @@ "7941" :> "Sports Events"
    @@ "7999" :> "Recreation Services" @@ "8011" :> "Medical"
    @@ "8021" :> "Dentist" @@ "8099" :> "Health Services"
    @@ "8211" :> "Schools" @@ "8299" :> "Education"
    @@ "8398" :> "Charity" @@ "9311" :> "Tax Payments"
    @@ "9399" :> "Government Services"

\* str(n) of an integer n >= 0
DecimalDigits == <<"0", "1", "2", "3", "4", "5", "6", "7", "8", "9">>

RECURSIVE IntStr(_)
IntStr(n) ==
    IF n < 10 THEN DecimalDigits[n + 1]
    ELSE IntStr(n \div 10) \o DecimalDigits[(n % 10) + 1]

\* line 44: str(mcc), for an argument that is an int (line 238: the default 0
\* of a missing field) or text
Str(mcc) == IF mcc.is_int THEN IntStr(mcc.int) ELSE mcc.str

IntArg(n) == [is_int |-> TRUE, int |-> n, str |-> ""]
StrArg(t) == [is_int |-> FALSE, int |-> 0, str |-> t]

\* The arguments of get_mcc_category in these runs: codes of the table, a code
\* outside it, the default of a missing field, as numbers and as text.
MccArgs ==
    {IntArg(5411), IntArg(4121), IntArg(9999), IntArg(0),
     StrArg("5411"), StrArg("9999")}

\* The arguments of _categorize_merchant in these runs.
MerchantArgs == {n \in MerchantNames : n.keywords \subseteq {"uber", "netflix"}}

\* lines 42-44: MCC_CATEGORIES.get(str(mcc), f"Other ({mcc})")
GetMccCategory_LastLabel(mcc) ==
    IF calls # <<>> THEN calls[Len(calls)].label
    ELSE IF Str(mcc) \in DOMAIN MCC_CATEGORIES THEN MCC_CATEGORIES[Str(mcc)]
    ELSE "Other (" \o Str(mcc) \o ")"

GetMccCategory(mcc) ==
    IF Str(mcc) \in DOMAIN MCC_CATEGORIES THEN MCC_CATEGORIES[Str(mcc)]
    ELSE "Other (" \o Str(mcc) \o ")"

\* get_mcc_category(mcc) is called and returns.
CallGetMccCategory(mcc) ==
    /\ Len(calls) < MaxCalls
    /\ calls' = Append(calls, [fn |-> "get_mcc_category", input |-> mcc,
                               label |-> GetMccCategory(mcc)])

\* _categorize_merchant(merchant) is called and returns.
CallCategorizeMerchant(merchant) ==
    /\ Len(calls) < MaxCalls
    /\ calls' = Append(calls, [fn |-> "_categorize_merchant", input |-> merchant,
                               label |-> CategorizeMerchant(merchant)])

(***************************************************************************)
(* SpecCalls: any sequence of calls of the two categorizers.               *)
(***************************************************************************)
outside_calls == <<clock, fetch_layer, report_layer, mono_vars,
    task_vars,
    transfers_vars,
    auth_vars,
    stats_vars>>

CallsInit ==
    /\ clock \in StartClocks
    /\ FetchLayerIdle
    /\ ReportLayerIdle

CallsMcc ==
    /\ \E mcc \in MccArgs : CallGetMccCategory(mcc)
    /\ UNCHANGED outside_calls

CallsMerchant ==
    /\ \E merchant \in MerchantArgs : CallCategorizeMerchant(merchant)
    /\ UNCHANGED outside_calls

CallsNext == CallsMcc \/ CallsMerchant

SpecCalls == CallsInit /\ [][CallsNext]_vars

MaxTasks == 2
MaxTaskRequests == 2

Sources == {"monobank", "wise"}

\* The invocations that have a request in flight to the source src.
InFlight(src) ==
    {t \in 1 .. Len(tasks) : tasks[t].pc = "in_flight" /\ tasks[t].source = src}

\* mcp_server.py:62, 70, monobank/client.py:209, 217, 255: func(), the GETs and
\* time.sleep() are blocking calls of a plain function: a running tool gives
\* the loop to no other invocation
LoopFree_Always(r) == TRUE
LoopFree(r) == r = 0

\* lines 244-250: a client's call of a tool that fetches from src arrives
TaskInvoke(src) ==
    /\ Len(tasks) < MaxTasks
    /\ tasks' = Append(tasks, [pc |-> "pending", source |-> src, sent |-> 0])
    /\ UNCHANGED <<clock, running>>

\* lines 81-195: the loop calls the tool's function
TaskDispatch(t) ==
    /\ t \in 1 .. Len(tasks)
    /\ tasks[t].pc = "pending"
    /\ LoopFree(running)
    /\ running' = t
    /\ tasks' = [tasks EXCEPT ![t].pc = "ready"]
    /\ UNCHANGED clock

\* monobank/client.py:75, 192, 217, wise/client.py:121, 183: the running tool
\* sends a GET and blocks
TaskSend(t) ==
    /\ running = t
    /\ tasks[t].pc = "ready"
    /\ tasks' = [tasks EXCEPT ![t].pc = "in_flight", ![t].sent = @ + 1]
    /\ UNCHANGED <<clock, running>>

\* The response arrives: the tool goes on to its next request, at once
\* (monobank/client.py:92, wise/client.py:253) or after a sleep (pacing,
\* monobank/client.py:208-209; backoff, 253-255, mcp_server.py:70), or it
\* returns and the loop is free again.
TaskReceive(t, next) ==
    /\ running = t
    /\ tasks[t].pc = "in_flight"
    /\ next \in {"ready", "sleeping"} => tasks[t].sent < MaxTaskRequests
    /\ tasks' = [tasks EXCEPT ![t].pc = next]
    /\ running' = IF next = "done" THEN 0 ELSE running
    /\ UNCHANGED clock

\* monobank/client.py:208-209: time.sleep(INTER_ACCOUNT_DELAY) returns
TaskWake(t) ==
    /\ running = t
    /\ tasks[t].pc = "sleeping"
    /\ clock' = clock + INTER_ACCOUNT_DELAY
    /\ tasks' = [tasks EXCEPT ![t].pc = "ready"]
    /\ UNCHANGED running

(***************************************************************************)
(* SpecTasks: tool invocations arriving at any time at one server.         *)
(***************************************************************************)
outside_tasks == <<fetch_layer, report_layer, mono_vars, call_vars,
    transfers_vars,
    auth_vars,
    stats_vars>>

TasksInit ==
    /\ clock \in StartClocks
    /\ FetchLayerIdle
    /\ ReportLayerIdle

TasksInvoke ==
    /\ \E src \in Sources : TaskInvoke(src)
    /\ UNCHANGED outside_tasks

TasksDispatch ==
    /\ \E t \in 1 .. MaxTasks : TaskDispatch(t)
    /\ UNCHANGED outside_tasks

TasksSend ==
    /\ \E t \in 1 .. Len(tasks) : TaskSend(t)
    /\ UNCHANGED outside_tasks

TasksReceive ==
    /\ \E t \in 1 .. Len(tasks), next \in {"ready", "sleeping", "done"} :
          TaskReceive(t, next)
    /\ UNCHANGED outside_tasks

TasksWake ==
    /\ \E t \in 1 .. Len(tasks) : TaskWake(t)
    /\ UNCHANGED outside_tasks

TasksNext ==
    \/ TasksInvoke
    \/ TasksDispatch
    \/ TasksSend
    \/ TasksReceive
    \/ TasksWake

SpecTasks == TasksInit /\ [][TasksNext]_vars

C31_LoopState == <<processed, cursor, seen_ids>>

\* C31: get_card_transactions terminates whatever the API answers: an
\* iteration of the while loop that does not end the call changes the state of
\* the loop, so that no answer can be given again and again for ever.
C31_EveryPageMakesProgress ==
    [][(wise_pc = "paging" /\ wise_pc' = "paging")
          => C31_LoopState' # C31_LoopState]_vars

\* A state the loop comes back to: a page of one record seen before came with
\* the cursor the call already holds, and the call asks for the next page.
C31_SamePageAgain ==
    /\ wise_pc = "paging"
    /\ page_requests = MaxPages
    /\ skipped # {}
    /\ Cardinality(seen_ids) = 1
    /\ cursor # None

\* C32: every fetched activity that is a card payment, completed or pending,
\* dated inside the window and of an id not seen before has its transaction in
\* the list the call holds, wherever it stood on its page.
C32_EligibleActivityIsEmitted ==
    eligible \subseteq {processed[i].act : i \in 1 .. Len(processed)}

\* The state that refutes it: the call returned an empty list after one page
\* that held an eligible activity behind a record older than the window.
C32_LostBehindOlderRecord ==
    /\ wise_pc = "returned"
    /\ page_requests = 1
    /\ older_seen
    /\ eligible # {}
    /\ processed = <<>>

(***************************************************************************)
(* Claims about the retry loop of get_all_transactions, checked under      *)
(* SpecAccounts.                                                           *)
(***************************************************************************)
\* The statement requests sent for the account i.
C34_RequestsFor(i) ==
    {k \in 1 .. Len(statement_requests) : statement_requests[k].idx = i}

\* C34: at most MAX_RETRIES statements are requested per account; a request
\* is followed by another for the same account only when it was answered 429,
\* and then the k-th 429 is followed by a wait of RATE_LIMIT_WAIT_SECONDS * k;
\* an account that was answered 429 MAX_RETRIES times gives no transaction,
\* and get_all_transactions does not raise once it has requested a statement.
C34_RetryBudgetPerAccount ==
    /\ \A i \in 1 .. Len(accounts) : Cardinality(C34_RequestsFor(i)) <= MAX_RETRIES
    /\ \A k \in 1 .. (Len(statement_requests) - 1) :
         LET r == statement_requests[k]
             nxt == statement_requests[k + 1]
         IN  /\ nxt.idx >= r.idx
             /\ nxt.idx = r.idx =>
                  /\ r.kind = "http_429"
                  /\ nxt.attempt = r.attempt + 1
                  /\ nxt.at - r.at = RATE_LIMIT_WAIT_SECONDS * (r.attempt + 1)
             /\ nxt.idx # r.idx => nxt.attempt = 0
    /\ \A k \in 1 .. Len(statement_requests) :
         (/\ statement_requests[k].kind = "http_429"
          /\ statement_requests[k].attempt = MAX_RETRIES - 1)
            => \A j \in 1 .. Len(all_transactions) :
                  all_transactions[j].id # statement_requests[k].idx
    /\ statement_requests # <<>> => mono_pc # "raised"
    /\ (statement_requests # <<>> /\ mono_pc = "returned")
          => monobank_result.kind = "ok"

\* The only account was answered 429 three times, with waits of 61 and 122
\* seconds, and the call returned an empty list.
C34_Witness ==
    /\ mono_pc = "returned"
    /\ Len(accounts) = 1
    /\ Len(statement_requests) = MAX_RETRIES
    /\ \A k \in 1 .. MAX_RETRIES : statement_requests[k].kind = "http_429"
    /\ statement_requests[2].at - statement_requests[1].at = 61
    /\ statement_requests[3].at - statement_requests[2].at = 122
    /\ clock = statement_requests[3].at
    /\ monobank_result = Returned(<<>>)

(***************************************************************************)
(* Claims about a successful attempt of rate_limit_retry, checked under    *)
(* SpecRetry.                                                              *)
(***************************************************************************)
\* The rate-limited failures among the first n invocations.
C35_RateLimitedBefore(n) ==
    {j \in 1 .. n : RateLimitFailure(outcomes[j])}

\* C35: when an invocation of the wrapped operation succeeds, it is the last
\* invocation, the wrapper returns the value of that invocation, and the
\* number of waits equals the number of rate-limited failures before it.
C35_SuccessEndsTheCall ==
    \A i \in 1 .. Len(outcomes) :
        outcomes[i].kind = "ok" =>
            /\ i = Len(outcomes)
            /\ wrapper_pc = "returned"
            /\ wrapper_result = [kind |-> "return", src |-> "func", n |-> i,
                                 val |-> outcomes[i].val, err |-> NoError]
            /\ Len(waits) = Cardinality(C35_RateLimitedBefore(i - 1))

\* Two rate-limited failures, two waits, then a success returning <<1>>.
C35_Witness ==
    /\ Len(outcomes) = 3
    /\ RateLimitFailure(outcomes[1])
    /\ RateLimitFailure(outcomes[2])
    /\ outcomes[3] = Returned(<<1>>)
    /\ Len(waits) = 2
    /\ wrapper_pc = "returned"
    /\ wrapper_result.val = <<1>>

(***************************************************************************)
(* WiseClient.get_transfers (src/mcp/wise/client.py:116-166)               *)
(***************************************************************************)
\* line 116: days: int = 14
DefaultTransferDays == 14

\* The longest list GET /transfers answers with.
MaxTransfers == 2

\* The transfers of the API, as far as lines 127-137 read them, seen from a
\* window [sd, n]: created before the window, at its first second, at its last
\* second, in the future, or a text strptime rejects.
TransferShapes(sd, n) ==
    {[status |-> st, created |-> c] :
        st \in {"outgoing_payment_sent", "funds_converted", "cancelled"},
        c \in {sd - 1, sd, n, n + 1, BadDate}}

\* lines 122-124: what GET /transfers can give: an error status
\* (raise_for_status raises) or a list of transfers
TransferResponses(sd, n) ==
    {[kind |-> "error", transfers |-> <<>>]}
    \cup {[kind |-> "list", transfers |-> l] :
            l \in UNION {[1 .. len -> TransferShapes(sd, n)] :
                            len \in 0 .. MaxTransfers}}

\* line 136: if tx_date < start_date or tx_date > now
OutsideWindow_NoUpper(t, sd, n) == t < sd
OutsideWindow(t, sd, n) == t < sd \/ t > n

\* lines 126-164: the for loop over the transfers from position i on
RECURSIVE ProcessTransfers(_, _, _, _, _)
ProcessTransfers(txs, i, proc, sd, n) ==
    IF i > Len(txs) THEN proc
    ELSE LET tx == txs[i] IN
      IF tx.status \notin {"outgoing_payment_sent", "funds_converted"}
        THEN ProcessTransfers(txs, i + 1, proc, sd, n)
      ELSE IF tx.created = BadDate
        THEN ProcessTransfers(txs, i + 1, proc, sd, n)
      ELSE IF OutsideWindow(tx.created, sd, n)
        THEN ProcessTransfers(txs, i + 1, proc, sd, n)
      ELSE ProcessTransfers(txs, i + 1,
                            Append(proc, [date |-> tx.created,
                                          category |-> "Bank Transfer",
                                          source |-> "Wise",
                                          account_type |-> "transfer"]),
                            sd, n)

\* lines 118-119: the call starts
TransfersEnter ==
    /\ transfers_pc = "idle"
    /\ transfers_now' = clock
    /\ transfers_start_date' = MidnightOf(clock - transfers_days * DaySeconds)
    /\ transfers_pc' = "requesting"
    /\ UNCHANGED <<fetch_op, transfers_days, transfers, transfers_processed>>

\* lines 121-166: the GET answers with resp, and the sorted list is returned
TransfersFetch(resp) ==
    /\ transfers_pc = "requesting"
    /\ IF resp.kind = "error"
         THEN /\ transfers_pc' = "raised"
              /\ UNCHANGED <<transfers, transfers_processed>>
         ELSE /\ transfers' = resp.transfers
              /\ transfers_processed' =
                   SortedByDateDesc(ProcessTransfers(resp.transfers, 1, <<>>,
                                                     transfers_start_date,
                                                     transfers_now))
              /\ transfers_pc' = "returned"
    /\ UNCHANGED <<fetch_op, transfers_days, transfers_now,
                   transfers_start_date>>

(***************************************************************************)
(* SpecWindow: one of get_all_transactions (Monobank), get_card_transactions*)
(* and get_transfers (Wise) is run against an arbitrary source, whose      *)
(* records lie before, inside and after the requested window.              *)
(***************************************************************************)
outside_transfers == <<wrapper_vars, gt_vars, wise_vars, report_layer,
                       mono_vars, call_vars, task_vars,
    auth_vars,
    stats_vars>>

\* A statement of one item dated at the first or the last second of the
\* window or after it, besides the answers of StatementResponses.
WindowStatementResponses(n, d) ==
    StatementResponses(n, d)
    \cup {[kind |-> "list", items |-> <<[time |-> t, amount |-> -1]>>] :
            t \in {MonoStartDate(n, d), n, n + 1}}

WindowInit ==
    /\ clock = RecurBase + 90 * DaySeconds + 1000
    /\ days = 0
    /\ GtIdle
    /\ WrapperIdle
    /\ wise_days = DefaultWiseDays
    /\ wise_now = 0
    /\ wise_start_date = 0
    /\ processed = <<>>
    /\ cursor = None
    /\ seen_ids = {}
    /\ wise_pc = "idle"
    /\ page_requests = 0
    /\ skipped = {}
    /\ older_seen = FALSE
    /\ cursorless_seen = FALSE
    /\ eligible = {}
    /\ TasksIdle
    /\ CallsIdle
    /\ AccountsIdle
    /\ CategorizeIdle
    /\ NormalizeIdle
    /\ RecurringIdle
    /\ report_txs = <<>>
    /\ report_days = DefaultReportDays
    /\ report = [rendered |-> FALSE]
    /\ report_pc = "idle"
    /\ FetchAllIdle
    /\ fetch_op \in {"monobank", "card", "transfers"}
    /\ transfers_days \in {0, DefaultTransferDays}
    /\ transfers_now = 0
    /\ transfers_start_date = 0
    /\ transfers = <<>>
    /\ transfers_processed = <<>>
    /\ transfers_pc = "idle"
    /\ AuthIdle
    /\ StatsIdle

WindowMonoEnter == fetch_op = "monobank" /\ AccountsEnter

WindowMonoClientInfo == fetch_op = "monobank" /\ AccountsClientInfo

WindowMonoAccount == fetch_op = "monobank" /\ AccountsAccount

WindowMonoStatement ==
    /\ fetch_op = "monobank"
    /\ \E resp \in WindowStatementResponses(mono_now, report_days) :
          MonoStatement(resp)
    /\ UNCHANGED outside_accounts

WindowMonoWake == fetch_op = "monobank" /\ AccountsWake

WindowCardCall == fetch_op = "card" /\ WiseCall

WindowCardPage == fetch_op = "card" /\ WisePage

WindowTransfersCall ==
    /\ fetch_op = "transfers"
    /\ TransfersEnter
    /\ UNCHANGED <<clock, outside_transfers>>

WindowTransfersAnswer ==
    /\ fetch_op = "transfers"
    /\ \E resp \in TransferResponses(transfers_start_date, transfers_now) :
          TransfersFetch(resp)
    /\ UNCHANGED <<clock, outside_transfers>>

WindowNext ==
    \/ WindowMonoEnter
    \/ WindowMonoClientInfo
    \/ WindowMonoAccount
    \/ WindowMonoStatement
    \/ WindowMonoWake
    \/ WindowCardCall
    \/ WindowCardPage
    \/ WindowTransfersCall
    \/ WindowTransfersAnswer

SpecWindow == WindowInit /\ [][WindowNext]_vars

(***************************************************************************)
(* Claims about the requested window, checked under SpecWindow.            *)
(***************************************************************************)
\* The date d lies between midnight of (n - dd days) and n.
C36_InsideWindow(d, n, dd) ==
    /\ d >= (n - dd * DaySeconds) - ((n - dd * DaySeconds) % DaySeconds)
    /\ d <= n

\* C36: every transaction collected or returned by get_all_transactions,
\* get_card_transactions and get_transfers is dated between midnight of
\* (now - days) and now, now being the clock the call read when it started.
C36_OutputInsideWindow ==
    /\ \A i \in 1 .. Len(all_transactions) :
          C36_InsideWindow(all_transactions[i].date, mono_now, report_days)
    /\ monobank_result.kind = "ok" =>
          \A i \in 1 .. Len(monobank_result.val) :
              C36_InsideWindow(monobank_result.val[i].date, mono_now, report_days)
    /\ \A i \in 1 .. Len(processed) :
          C36_InsideWindow(processed[i].date, wise_now, wise_days)
    /\ \A i \in 1 .. Len(transfers_processed) :
          C36_InsideWindow(transfers_processed[i].date, transfers_now,
                           transfers_days)

\* GET /transfers answered with a sent transfer dated one second after now and
\* a converted one dated at the window start, and only the latter was returned.
C36_Witness ==
    /\ transfers_pc = "returned"
    /\ transfers_days = DefaultTransferDays
    /\ Len(transfers) = 2
    /\ transfers[1] = [status |-> "outgoing_payment_sent",
                       created |-> transfers_now + 1]
    /\ transfers[2] = [status |-> "funds_converted",
                       created |-> transfers_start_date]
    /\ Len(transfers_processed) = 1
    /\ transfers_processed[1].date = transfers_start_date

(***************************************************************************)
(* SpecChunkDays: MonobankClient.get_transactions(account_id, days) for    *)
(* negative, zero and positive days. Every call of get_statements returns  *)
(* or raises, so the loop always takes its next step.                      *)
(***************************************************************************)
\* The most negative days argument is -MaxNegativeDays.
MaxNegativeDays == 2

ChunkDaysInit ==
    /\ clock \in StartClocks
    /\ days \in (0 - MaxNegativeDays) .. MaxDays
    /\ GtIdle
    /\ WrapperIdle
    /\ wise_days = 0
    /\ WiseIdle
    /\ StatsIdle
    /\ AuthIdle
    /\ TransfersIdle
    /\ TasksIdle
    /\ CallsIdle
    /\ AccountsIdle
    /\ ReportLayerIdle

SpecChunkDays ==
    ChunkDaysInit /\ [][ChunkNext]_vars /\ WF_vars(ChunkEnter) /\ WF_vars(ChunkFetch)

\* C37: get_transactions ends for every days; an iteration whose fetch
\* succeeded moves current_start strictly forward and never past now, the loop
\* goes on only while current_start is before now, and for days <= 0 the call
\* returns the empty list without a get_statements call.
C37_ChunkLoopTerminates ==
    /\ [][gt_pc = "loop" =>
            /\ requests'[Len(requests')].out.kind = "ok" =>
                  (current_start' > current_start /\ current_start' <= now)
            /\ gt_pc' = "loop" => current_start' < now]_vars
    /\ []((days <= 0 /\ gt_pc # "idle") =>
            (gt_pc = "returned" /\ requests = <<>> /\ all_txs = <<>>))
    /\ <>(gt_pc \in {"returned", "raised"})

\* days = 65: three chunks were fetched and the call returned with
\* current_start at now.
C37_Witness ==
    /\ days = 65
    /\ gt_pc = "returned"
    /\ Len(requests) = 3
    /\ \A k \in 1 .. 3 : requests[k].out.kind = "ok"
    /\ current_start = now

(***************************************************************************)
(* BearerAuthMiddleware.dispatch (src/mcp/mcp_server.py:212-240)           *)
(* A text with a character outside ASCII is written with <E9> for that     *)
(* character.                                                              *)
(***************************************************************************)
\* The most requests the server receives in a run.
MaxAuthRequests == 2

\* The texts that are not pure ASCII.
NonAsciiTexts == {"caf<E9>"}

IsAscii(s) == s \notin NonAsciiTexts

\* line 26: os.environ.get("MCP_AUTH_TOKEN"): unset, empty, or a token
ConfiguredTokens == {None, "", "s3cret", "caf<E9>"}

\* The Authorization header of a request: absent (None), or its text
AuthorizationHeaders ==
    {None, "", "Bearer s3cret", "Bearer wrong", "Bearer ", "Bearer s3cret ",
     "bearer s3cret", "Basic s3cret", "s3cret", "Bearer caf<E9>"}

\* line 218: request.headers.get("Authorization", "")
AuthHeader(authorization) == IF authorization = None THEN "" ELSE authorization

\* line 221: auth_header.startswith("Bearer ")
StartsWith(s, prefix) ==
    Len(s) >= Len(prefix) /\ SubSeq(s, 1, Len(prefix)) = prefix

\* line 229: auth_header[7:]
ProvidedToken(auth_header) == SubSeq(auth_header, 8, Len(auth_header))

\* lines 214-238: what dispatch does with a request: it calls call_next (the
\* endpoint handler runs), answers 401, or secrets.compare_digest raises
\* TypeError because one of its str arguments is not ASCII
Dispatch(token, authorization) ==
    IF token = None \/ token = ""
      THEN "call_next"
    ELSE IF ~StartsWith(AuthHeader(authorization), "Bearer ")
      THEN "401"
    ELSE IF \/ ~IsAscii(ProvidedToken(AuthHeader(authorization)))
            \/ ~IsAscii(token)
      THEN "TypeError"
    ELSE IF ProvidedToken(AuthHeader(authorization)) # token
      THEN "401"
    ELSE "call_next"

\* One request is handled.
AuthDispatch(authorization) ==
    /\ Len(auth_log) < MaxAuthRequests
    /\ auth_log' = Append(auth_log,
                          [authorization |-> authorization,
                           outcome |-> Dispatch(MCP_AUTH_TOKEN, authorization)])
    /\ UNCHANGED MCP_AUTH_TOKEN

(***************************************************************************)
(* SpecAuth: the SSE server, started with or without MCP_AUTH_TOKEN,       *)
(* receives requests with arbitrary Authorization headers.                 *)
(***************************************************************************)
outside_auth == <<clock, fetch_layer, report_layer, mono_vars, call_vars,
                  task_vars, transfers_vars,
    stats_vars>>

AuthInit ==
    /\ clock \in StartClocks
    /\ days = 0
    /\ GtIdle
    /\ WrapperIdle
    /\ wise_days = 0
    /\ WiseIdle
    /\ StatsIdle
    /\ TransfersIdle
    /\ TasksIdle
    /\ CallsIdle
    /\ AccountsIdle
    /\ ReportLayerIdle
    /\ MCP_AUTH_TOKEN \in ConfiguredTokens
    /\ auth_log = <<>>

AuthRequest ==
    /\ \E a \in AuthorizationHeaders : AuthDispatch(a)
    /\ UNCHANGED outside_auth

AuthNext == AuthRequest

SpecAuth == AuthInit /\ [][AuthNext]_vars

(***************************************************************************)
(* Claims about the bearer authentication, checked under SpecAuth.         *)
(***************************************************************************)
\* C38: with a token configured, a request reaches the handler only if its
\* Authorization header is "Bearer " followed by the token, and every other
\* request is answered 401; with no token every request reaches the handler.
C38_OnlyBearerTokenPasses ==
    \A k \in 1 .. Len(auth_log) :
        LET r == auth_log[k]
            configured == MCP_AUTH_TOKEN # None /\ MCP_AUTH_TOKEN # ""
        IN  /\ configured =>
                 /\ r.outcome = "call_next" =>
                       r.authorization = "Bearer " \o MCP_AUTH_TOKEN
                 /\ r.authorization # "Bearer " \o MCP_AUTH_TOKEN =>
                       r.outcome = "401"
            /\ ~configured => r.outcome = "call_next"

\* With the token s3cret configured, a request whose bearer token is not
\* ASCII ended in a TypeError instead of the 401 answer.
C38_NonAsciiTokenRaises ==
    /\ MCP_AUTH_TOKEN = "s3cret"
    /\ Len(auth_log) = 1
    /\ auth_log[1].authorization = "Bearer caf<E9>"
    /\ auth_log[1].outcome = "TypeError"

(***************************************************************************)
(* MonobankClient.get_expense_stats (src/mcp/monobank/client.py:117-141)   *)
(* The amounts of the statement are integers of minor units; the sums in   *)
(* major units are counted in thousandths.                                 *)
(***************************************************************************)
\* The longest list get_transactions returns in these runs.
MaxStatsTxs == 3

\* The statement items as far as lines 128-131 read them: amount, and mcc as a
\* number or missing.
StatsItems ==
    {[amount |-> a, has_mcc |-> TRUE, mcc |-> m] :
        a \in {-2, -1, 0, 1}, m \in {5411, 4829}}
    \cup {[amount |-> a, has_mcc |-> FALSE, mcc |-> 0] : a \in {-2, -1, 0, 1}}

StatsLists == UNION {[1 .. len -> StatsItems] : len \in 0 .. MaxStatsTxs}

\* line 129: if amount < 0
IsSpent_NonZero(amount) == amount # 0
IsSpent(amount) == amount < 0

\* line 130: abs(amount) / 100.0, in thousandths
AmountAbs(amount) == (IF amount < 0 THEN 0 - amount ELSE amount) * 10

\* line 131: str(tx.get("mcc", "Unknown"))
MccKey(tx) == IF tx.has_mcc THEN Str(IntArg(tx.mcc)) ELSE Str(StrArg("Unknown"))

\* lines 139-140: round(x, 2) of a value in thousandths, half to even
Round2(x) ==
    LET q == x \div 10
        r == x % 10
    IN  IF r > 5 \/ (r = 5 /\ q % 2 = 1) THEN (q + 1) * 10 ELSE q * 10

\* lines 127-134: the for loop from position i on, giving by_mcc and
\* total_expense
RECURSIVE StatsLoop(_, _, _, _)
StatsLoop(txs, i, by_mcc, total_expense) ==
    IF i > Len(txs)
      THEN [by_mcc |-> by_mcc, total_expense |-> total_expense]
      ELSE LET amount == txs[i].amount
               mcc == MccKey(txs[i])
           IN  IF IsSpent(amount)
                 THEN StatsLoop(txs, i + 1,
                                IF mcc \in DOMAIN by_mcc
                                  THEN [by_mcc EXCEPT ![mcc] = @ + AmountAbs(amount)]
                                  ELSE by_mcc @@ (mcc :> AmountAbs(amount)),
                                total_expense + AmountAbs(amount))
                 ELSE StatsLoop(txs, i + 1, by_mcc, total_expense)

\* lines 121-141: get_expense_stats on the list txs
GetExpenseStats(txs) ==
    LET r == StatsLoop(txs, 1, [k \in {} |-> 0], 0)
    IN  [done |-> TRUE,
         total_spent |-> Round2(r.total_expense),
         by_category |-> [k \in DOMAIN r.by_mcc |-> Round2(r.by_mcc[k])]]

(***************************************************************************)
(* SpecStats: get_expense_stats on an arbitrary statement.                 *)
(***************************************************************************)
outside_stats == <<clock, fetch_layer, report_layer, mono_vars, call_vars,
                   task_vars, transfers_vars, auth_vars>>

StatsInit ==
    /\ clock \in StartClocks
    /\ days = 0
    /\ GtIdle
    /\ WrapperIdle
    /\ wise_days = 0
    /\ WiseIdle
    /\ TransfersIdle
    /\ AuthIdle
    /\ TasksIdle
    /\ CallsIdle
    /\ AccountsIdle
    /\ ReportLayerIdle
    /\ stats_txs \in StatsLists
    /\ stats = [done |-> FALSE]

StatsCompute ==
    /\ ~stats.done
    /\ stats' = GetExpenseStats(stats_txs)
    /\ UNCHANGED <<stats_txs, outside_stats>>

StatsNext == StatsCompute

SpecStats == StatsInit /\ [][StatsNext]_vars

(***************************************************************************)
(* Claims about get_expense_stats, checked under SpecStats.                *)
(***************************************************************************)
\* The positions of the items with a negative amount and the key k.
C39_ExpensesOf(k) ==
    {i \in 1 .. Len(stats_txs) :
        /\ stats_txs[i].amount < 0
        /\ k = (IF stats_txs[i].has_mcc
                  THEN (IF stats_txs[i].mcc = 5411 THEN "5411" ELSE "4829")
                  ELSE "Unknown")}

\* The sum of |amount| * 10 over the positions I.
RECURSIVE C39_SumAbs(_)
C39_SumAbs(I) ==
    IF I = {} THEN 0
    ELSE LET i == CHOOSE j \in I : TRUE
         IN  (0 - stats_txs[i].amount) * 10 + C39_SumAbs(I \ {i})

\* The sum of the values of the function f.
RECURSIVE C39_SumValues(_, _)
C39_SumValues(f, K) ==
    IF K = {} THEN 0
    ELSE LET k == CHOOSE j \in K : TRUE
         IN  f[k] + C39_SumValues(f, K \ {k})

\* C39: by_category has one entry per merchant code with an item of negative
\* amount, its value the sum of |amount|/100 over those items; items of
\* amount >= 0 are not counted; total_spent is the sum of the by_category
\* values.
C39_TotalIsSumOfCategories ==
    stats.done =>
        /\ DOMAIN stats.by_category =
              {k \in {"5411", "4829", "Unknown"} : C39_ExpensesOf(k) # {}}
        /\ \A k \in DOMAIN stats.by_category :
              stats.by_category[k] = C39_SumAbs(C39_ExpensesOf(k))
        /\ stats.total_spent =
              C39_SumValues(stats.by_category, DOMAIN stats.by_category)
        /\ stats.total_spent =
              C39_SumAbs({i \in 1 .. Len(stats_txs) : stats_txs[i].amount < 0})

\* An income, an expense of 2 with code 5411 and an expense of 1 without a
\* code: total_spent is 0.03, split as 0.02 and 0.01.
C39_Witness ==
    /\ stats.done
    /\ Len(stats_txs) = 3
    /\ stats_txs[1].amount = 1
    /\ stats_txs[2] = [amount |-> -2, has_mcc |-> TRUE, mcc |-> 5411]
    /\ stats_txs[3] = [amount |-> -1, has_mcc |-> FALSE, mcc |-> 0]
    /\ stats.total_spent = 30
    /\ stats.by_category = ("5411" :> 20) @@ ("Unknown" :> 10)
====
